---------------------------- MODULE Spec2Model ----------------------------
(***************************************************************************)
(* Model of the crawl-frontier core of firecrawl                           *)
(* (apps/api/sharedLibs/crawler/src/lib.rs): filter_links, the link        *)
(* admission filter, and parse_sitemap_xml / process_sitemap, the sitemap  *)
(* classifier.                                                             *)
(*                                                                         *)
(* Strings are sequences of one-character strings, so that prefix, suffix, *)
(* split, trim and lower-casing are computed the way the code computes     *)
(* them.                                                                   *)
(***************************************************************************)
EXTENDS Integers, Sequences, FiniteSets, TLC

VARIABLES
    data,            \* FilterLinksCall: the request of the running filter_links call
    fpc,             \* position inside _filter_links: "call", "iter", "returned"
    limit,           \* the effective limit (line 107)
    base_url,        \* Url::parse(&data.base_url)   (line 118)
    initial_url,     \* Url::parse(&data.initial_url) (line 119)
    excludes_regex,  \* compiled exclude patterns (line 122)
    includes_regex,  \* compiled include patterns (line 125)
    consumed,        \* how many input links the filter closure has been called on
    links,           \* the Vec the iterator chain collects
    denial_reasons,  \* HashMap<String,String>, a set of <<key, value>> entries
    fresult,         \* "none" while running, then "ok" or "err"
    xml_content,     \* the sitemap text given to the sitemap entry point
    sop,             \* which sitemap entry point runs: "parse" or "process"
    spc,             \* position inside the sitemap call: "call", "parsed", "returned"
    parsed,          \* Result<ParsedSitemap, _> of _parse_sitemap_xml
    instructions,    \* Vec<SitemapInstruction>
    total_count,     \* SitemapProcessingResult.total_count
    sresult,         \* "none" while running, then "ok" or "err"
    sitemap_src,     \* the document xml_content was written from
    opts,            \* TranformHTMLOptions, and how the text that carries them arrives;
                     \* the arguments of get_inner_json and of extract_base_href
    tpc,             \* position inside the running entry point: "call", a stage, "returned"
    document,        \* the kuchikiki document of the running entry point
    effective_url,   \* the effective base URL, url of line 335; the url of line 23
    tresult,         \* what the entry point hands back: kind and text
    first,           \* the text a first transform_html call returned, when it is fed back
    meta_html,       \* the text given to extract_metadata
    mpc,             \* position inside _extract_metadata: "call", "metas", "returned"
    meta_document,   \* the kuchikiki document of _extract_metadata
    meta_out,        \* out, the HashMap<String, Value>: a set of <<key, value>> entries
    metas,           \* what the iterator of line 186 has still to yield
    mresult          \* "none" while running, then "ok" or "panic"

fvars == <<data, fpc, limit, base_url, initial_url, excludes_regex, includes_regex,
           consumed, links, denial_reasons, fresult>>
svars == <<xml_content, sop, spc, parsed, instructions, total_count, sresult, sitemap_src>>
tvars == <<opts, tpc, document, effective_url, tresult, first>>
mvars == <<meta_html, mpc, meta_document, meta_out, metas, mresult>>
vars == <<fvars, svars, tvars, mvars>>

---------------------------------------------------------------------------
(* String helpers: what str::starts_with, ends_with, to_lowercase, trim and *)
(* split do on the strings of the model.                                   *)

\* the letters of the model, and one run of letters that is kept as a single atom
Upper == <<"A","B","C","G","H","L","M","N","P","T","X","RUSTFC">>
Lower == <<"a","b","c","g","h","l","m","n","p","t","x","rustfc">>

LowerChar(c) ==
    IF \E i \in 1..Len(Upper) : Upper[i] = c
    THEN Lower[CHOOSE i \in 1..Len(Upper) : Upper[i] = c]
    ELSE c

to_lowercase(s) == [i \in 1..Len(s) |-> LowerChar(s[i])]

starts_with(s, p) == Len(p) <= Len(s) /\ SubSeq(s, 1, Len(p)) = p

ends_with(s, p) == Len(p) <= Len(s) /\ SubSeq(s, Len(s) - Len(p) + 1, Len(s)) = p

Drop(s, n) == SubSeq(s, n + 1, Len(s))

IsWhite(c) == c \in {" ", "\n"}

RECURSIVE trim_start(_)
trim_start(s) == IF s # <<>> /\ IsWhite(Head(s)) THEN trim_start(Tail(s)) ELSE s

RECURSIVE trim_end(_)
trim_end(s) ==
    IF s # <<>> /\ IsWhite(s[Len(s)]) THEN trim_end(SubSeq(s, 1, Len(s) - 1)) ELSE s

trim(s) == trim_end(trim_start(s))

\* index of the first occurrence of a character of cs in s, Len(s)+1 when none
FindAny(s, cs) ==
    IF \E i \in 1..Len(s) : s[i] \in cs
    THEN CHOOSE i \in 1..Len(s) : s[i] \in cs /\ \A j \in 1..(i - 1) : s[j] \notin cs
    ELSE Len(s) + 1

\* str::split(c): the pieces between the occurrences of c, empty pieces kept
RECURSIVE split(_, _)
split(s, c) ==
    LET i == FindAny(s, {c})
    IN  IF i > Len(s) THEN <<s>>
        ELSE <<SubSeq(s, 1, i - 1)>> \o split(Drop(s, i), c)

---------------------------------------------------------------------------
(* The url crate, as far as the links of the model use it: Url::parse,     *)
(* Url::join, Url::path and Url::as_str for http URLs, following the       *)
(* WHATWG URL parser the crate implements (no port, user info, fragment    *)
(* or percent-encoding appears in the strings of the model).               *)

IsAlpha(c) == \E i \in 1..Len(Upper) : Upper[i] = c \/ Lower[i] = c

\* length of the scheme of s (the letters before the first ":"), 0 when s has none
SchemeLen(s) ==
    LET i == FindAny(s, {":"})
    IN  IF i <= Len(s) /\ i > 1 /\ \A j \in 1..(i - 1) : IsAlpha(s[j])
        THEN i - 1 ELSE 0

UrlError == [ok |-> FALSE, scheme |-> <<>>, host |-> <<>>, path |-> <<>>,
             has_query |-> FALSE, query |-> <<>>]

RECURSIVE SkipSlashes(_)
SkipSlashes(s) == IF s # <<>> /\ Head(s) = "/" THEN SkipSlashes(Tail(s)) ELSE s

\* the segments of a path after "." and ".." are resolved
RECURSIVE DotFold(_, _)
DotFold(segs, out) ==
    IF segs = <<>> THEN out
    ELSE LET seg  == Head(segs)
             last == Len(segs) = 1
         IN  IF seg = <<".", ".">>
             THEN LET popped == IF out = <<>> THEN out ELSE SubSeq(out, 1, Len(out) - 1)
                  IN  DotFold(Tail(segs), IF last THEN Append(popped, <<>>) ELSE popped)
             ELSE IF seg = <<".">>
             THEN DotFold(Tail(segs), IF last THEN Append(out, <<>>) ELSE out)
             ELSE DotFold(Tail(segs), Append(out, seg))

RECURSIVE JoinSegs(_)
JoinSegs(segs) == IF segs = <<>> THEN <<>> ELSE <<"/">> \o Head(segs) \o JoinSegs(Tail(segs))

\* the path of a special URL: never empty, dot segments removed
NormalizePath(p) ==
    IF p = <<>> THEN <<"/">>
    ELSE LET out == DotFold(split(Tail(p), "/"), <<>>)
         IN  IF out = <<>> THEN <<"/">> ELSE JoinSegs(out)

\* path and query of the text that follows the authority, or of a relative reference
PathOf(s) == SubSeq(s, 1, FindAny(s, {"?"}) - 1)
HasQuery(s) == FindAny(s, {"?"}) <= Len(s)
QueryOf(s) == Drop(s, FindAny(s, {"?"}))

\* authority state: s is what follows "scheme://"
ParseAuthority(scheme, s) ==
    LET i    == FindAny(s, {"/", "?"})
        host == SubSeq(s, 1, i - 1)
        rest == Drop(s, i - 1)
    IN  IF host = <<>> THEN UrlError
        ELSE [ok |-> TRUE, scheme |-> scheme, host |-> to_lowercase(host),
              path |-> NormalizePath(PathOf(rest)),
              has_query |-> HasQuery(rest), query |-> QueryOf(rest)]

\* a scheme other than http: the rest is kept as an opaque path
ParseOpaque(scheme, s) ==
    [ok |-> TRUE, scheme |-> scheme, host |-> <<>>, path |-> PathOf(s),
     has_query |-> HasQuery(s), query |-> QueryOf(s)]

HttpScheme == <<"h", "t", "t", "p">>

\* Url::parse(s): s must carry its own scheme
UrlParse(input) ==
    LET s == trim(input)
        n == SchemeLen(s)
        scheme == to_lowercase(SubSeq(s, 1, n))
    IN  IF n = 0 THEN UrlError
        ELSE IF scheme = HttpScheme THEN ParseAuthority(scheme, SkipSlashes(Drop(s, n + 1)))
        ELSE ParseOpaque(scheme, Drop(s, n + 1))

\* the directory of a path: up to and including its last "/"
RECURSIVE DirOf(_)
DirOf(p) == IF p = <<>> \/ p[Len(p)] = "/" THEN p ELSE DirOf(SubSeq(p, 1, Len(p) - 1))

\* the relative state of the parser: s has no scheme of its own
JoinRelative(base, s) ==
    IF starts_with(s, <<"/", "/">>) THEN ParseAuthority(base.scheme, SkipSlashes(s))
    ELSE IF s = <<>> THEN base
    ELSE IF Head(s) = "/"
    THEN [base EXCEPT !.path = NormalizePath(PathOf(s)),
                      !.has_query = HasQuery(s), !.query = QueryOf(s)]
    ELSE IF Head(s) = "?"
    THEN [base EXCEPT !.has_query = TRUE, !.query = Tail(s)]
    ELSE [base EXCEPT !.path = NormalizePath(DirOf(base.path) \o PathOf(s)),
                      !.has_query = HasQuery(s), !.query = QueryOf(s)]

\* Url::join(base, link)
UrlJoin(base, input) ==
    LET s == trim(input)
        n == SchemeLen(s)
        scheme == to_lowercase(SubSeq(s, 1, n))
        rest == Drop(s, n + 1)
    IN  IF n = 0 THEN JoinRelative(base, s)
        ELSE IF scheme # HttpScheme THEN ParseOpaque(scheme, rest)
        ELSE IF scheme = base.scheme /\ ~starts_with(rest, <<"/", "/">>)
        THEN JoinRelative(base, rest)
        ELSE ParseAuthority(scheme, SkipSlashes(rest))

\* Url::as_str
as_str(u) ==
    u.scheme \o <<":">> \o (IF u.scheme = HttpScheme THEN <<"/", "/">> ELSE <<>>)
    \o u.host \o u.path \o (IF u.has_query THEN <<"?">> \o u.query ELSE <<>>)

---------------------------------------------------------------------------
(* The regex crate, for the patterns of the model: literal characters with *)
(* an optional leading "^" and trailing "$"; a pattern whose parentheses   *)
(* do not balance does not compile.  is_match searches anywhere in the     *)
(* text.                                                                   *)

Count(s, c) == Cardinality({i \in 1..Len(s) : s[i] = c})

RegexNew(p) ==
    IF Count(p, "(") # Count(p, ")")
    THEN [ok |-> FALSE, from_start |-> FALSE, to_end |-> FALSE, lit |-> <<>>]
    ELSE LET a == p # <<>> /\ Head(p) = "^"
             q == IF a THEN Tail(p) ELSE p
             e == q # <<>> /\ q[Len(q)] = "$"
         IN  [ok |-> TRUE, from_start |-> a, to_end |-> e,
              lit |-> IF e THEN SubSeq(q, 1, Len(q) - 1) ELSE q]

is_match(re, text) ==
    \E i \in 0..(Len(text) - Len(re.lit)) :
        /\ SubSeq(text, i + 1, i + Len(re.lit)) = re.lit
        /\ re.from_start => i = 0
        /\ re.to_end => i + Len(re.lit) = Len(text)

\* collect::<Result<Vec<_>, _>>().unwrap_or_default(): one bad pattern empties the set
CompilePatternsAllOrNothing(patterns) ==
    IF \E i \in 1..Len(patterns) : ~RegexNew(patterns[i]).ok THEN <<>>
    ELSE [i \in 1..Len(patterns) |-> RegexNew(patterns[i])]

\* lines 121-122 and 124-125: compile every pattern, keep the ones that compiled
RECURSIVE CompilePatterns(_)
CompilePatterns(patterns) ==
    IF patterns = <<>> THEN <<>>
    ELSE LET r == RegexNew(Head(patterns))
         IN  (IF r.ok THEN <<r>> ELSE <<>>) \o CompilePatterns(Tail(patterns))

---------------------------------------------------------------------------
(* The robotstxt crate's DefaultMatcher.  A robots.txt text is a sequence  *)
(* of lines <<key, value>> with key "user-agent", "allow" or "disallow".   *)
(* Rules of the groups naming one of the agents are used when there is     *)
(* such a group, the rules of the "*" groups otherwise; the longest        *)
(* matching pattern decides and an allow wins a tie.                       *)

Agents == {"FireCrawlAgent", "FirecrawlAgent"}

RobotsStart == [in_specific |-> FALSE, in_global |-> FALSE, seen_rule |-> FALSE,
                ever_specific |-> FALSE, specific |-> {}, global |-> {}]

RECURSIVE RobotsFold(_, _)
RobotsFold(lines, st) ==
    IF lines = <<>> THEN st
    ELSE LET key == Head(lines)[1]
             val == Head(lines)[2]
         IN  IF key = "user-agent"
             THEN LET fresh == IF st.seen_rule
                               THEN [st EXCEPT !.in_specific = FALSE, !.in_global = FALSE,
                                               !.seen_rule = FALSE]
                               ELSE st
                  IN  RobotsFold(Tail(lines),
                        IF val = "*" THEN [fresh EXCEPT !.in_global = TRUE]
                        ELSE IF val \in Agents
                        THEN [fresh EXCEPT !.in_specific = TRUE, !.ever_specific = TRUE]
                        ELSE fresh)
             ELSE RobotsFold(Tail(lines),
                    [st EXCEPT !.seen_rule = TRUE,
                               !.specific = IF st.in_specific THEN @ \cup {<<key, val>>} ELSE @,
                               !.global = IF st.in_global THEN @ \cup {<<key, val>>} ELSE @])

\* the length of the longest pattern of the given kind that is a prefix of the path
RulePriority(rules, kind, path) ==
    LET hits == {Len(r[2]) : r \in {x \in rules : x[1] = kind /\ starts_with(path, x[2])}}
    IN  IF hits = {} THEN -1 ELSE CHOOSE n \in hits : \A m \in hits : m <= n

allowed_by_robots(robots_txt, url) ==
    LET st    == RobotsFold(robots_txt, RobotsStart)
        rules == IF st.ever_specific THEN st.specific ELSE st.global
        path  == url.path \o (IF url.has_query THEN <<"?">> \o url.query ELSE <<>>)
        allow == RulePriority(rules, "allow", path)
        dis   == RulePriority(rules, "disallow", path)
    IN  ~(dis > 0 /\ dis > allow)

---------------------------------------------------------------------------
(* filter_links                                                            *)

file_extensions == {
    <<".", "p", "n", "g">>, <<".", "j", "p", "g">>, <<".", "j", "p", "e", "g">>,
    <<".", "g", "i", "f">>, <<".", "c", "s", "s">>, <<".", "j", "s">>,
    <<".", "i", "c", "o">>, <<".", "s", "v", "g">>, <<".", "t", "i", "f", "f">>,
    <<".", "z", "i", "p">>, <<".", "e", "x", "e">>, <<".", "d", "m", "g">>,
    <<".", "m", "p", "4">>, <<".", "m", "p", "3">>, <<".", "w", "a", "v">>,
    <<".", "p", "p", "t", "x">>, <<".", "x", "l", "s", "x">>, <<".", "a", "v", "i">>,
    <<".", "f", "l", "v">>, <<".", "w", "o", "f", "f">>, <<".", "t", "t", "f">>,
    <<".", "w", "o", "f", "f", "2">>, <<".", "w", "e", "b", "p">>,
    <<".", "i", "n", "c">>}

\* _is_file: the lower-cased path ends with one of the extensions
is_file(url) == \E ext \in file_extensions : ends_with(to_lowercase(url.path), ext)

IndexPhp == <<"i", "n", "d", "e", "x", ".", "p", "h", "p">>
IndexHtml == <<"i", "n", "d", "e", "x", ".", "h", "t", "m", "l">>

\* _get_url_depth: the path segments that are neither empty nor an index file
get_url_depth(path) ==
    LET segs == split(path, "/")
    IN  Cardinality({i \in 1..Len(segs) : segs[i] \notin {<<>>, IndexPhp, IndexHtml}})

\* usize::MAX, the limit of a request that gives none (the greatest integer of the
\* model checker stands for it: no list of the model is that long)
UsizeMax == 2147483647

EffectiveLimitOffByOne(l) == IF l = <<>> THEN UsizeMax ELSE IF l[1] < 0 THEN 0 ELSE l[1] + 1

EffectiveLimitNoClamp(l) == IF l = <<>> \/ l[1] < 0 THEN UsizeMax ELSE l[1]

\* line 107-109: the effective limit of an Option<i64>, <<>> being None
EffectiveLimit(l) == IF l = <<>> THEN UsizeMax ELSE IF l[1] < 0 THEN 0 ELSE l[1]

\* what the closure of lines 128-186 reads besides the link
Ctx == [data |-> data, base_url |-> base_url, initial_url |-> initial_url,
        excludes_regex |-> excludes_regex, includes_regex |-> includes_regex]

\* line 144-148: the text the patterns are matched against
exinc_path(c, url) == IF c.data.regex_on_full_url THEN as_str(url) ELSE url.path

\* the conditions of the seven checks, each on its own
JoinFails(c, link) == ~UrlJoin(c.base_url, link).ok
DepthExceededInclusive(c, url) == get_url_depth(url.path) >= c.data.max_depth
DepthExceeded(c, url) == get_url_depth(url.path) > c.data.max_depth
ExcludeMatches(c, url) ==
    /\ c.excludes_regex # <<>>
    /\ \E i \in 1..Len(c.excludes_regex) : is_match(c.excludes_regex[i], exinc_path(c, url))
IncludeMisses(c, url) ==
    /\ c.includes_regex # <<>>
    /\ ~\E i \in 1..Len(c.includes_regex) : is_match(c.includes_regex[i], exinc_path(c, url))
IsBackwardSegmentAware(c, url) ==
    /\ ~c.data.allow_backward_crawling
    /\ ~\/ url.path = c.initial_url.path
        \/ starts_with(url.path, c.initial_url.path \o <<"/">>)
        \/ ends_with(c.initial_url.path, <<"/">>) /\ starts_with(url.path, c.initial_url.path)
IsBackward(c, url) ==
    ~c.data.allow_backward_crawling /\ ~starts_with(url.path, c.initial_url.path)
RobotsDisallowed(c, url) ==
    ~c.data.ignore_robots_txt /\ ~allowed_by_robots(c.data.robots_txt, url)
FileType(c, url) == is_file(url)

FilterClosureExcludeFirst(c, link) ==
    LET url == UrlJoin(c.base_url, link)
    IN  IF JoinFails(c, link) THEN "URL_PARSE_ERROR"
        ELSE IF ExcludeMatches(c, url) THEN "EXCLUDE_PATTERN"
        ELSE IF DepthExceeded(c, url) THEN "DEPTH_LIMIT"
        ELSE IF IncludeMisses(c, url) THEN "INCLUDE_PATTERN"
        ELSE IF IsBackward(c, url) THEN "BACKWARD_CRAWLING"
        ELSE IF RobotsDisallowed(c, url) THEN "ROBOTS_TXT"
        ELSE IF FileType(c, url) THEN "FILE_TYPE"
        ELSE "KEEP"

FilterClosureNoFileCheck(c, link) ==
    LET url == UrlJoin(c.base_url, link)
    IN  IF JoinFails(c, link) THEN "URL_PARSE_ERROR"
        ELSE IF DepthExceeded(c, url) THEN "DEPTH_LIMIT"
        ELSE IF ExcludeMatches(c, url) THEN "EXCLUDE_PATTERN"
        ELSE IF IncludeMisses(c, url) THEN "INCLUDE_PATTERN"
        ELSE IF IsBackward(c, url) THEN "BACKWARD_CRAWLING"
        ELSE IF RobotsDisallowed(c, url) THEN "ROBOTS_TXT"
        ELSE "KEEP"

\* the closure given to filter(): "KEEP" for true, else the reason it inserts
FilterClosure(c, link) ==
    LET url == UrlJoin(c.base_url, link)
    IN  IF JoinFails(c, link) THEN "URL_PARSE_ERROR"
        ELSE IF DepthExceeded(c, url) THEN "DEPTH_LIMIT"
        ELSE IF ExcludeMatches(c, url) THEN "EXCLUDE_PATTERN"
        ELSE IF IncludeMisses(c, url) THEN "INCLUDE_PATTERN"
        ELSE IF IsBackward(c, url) THEN "BACKWARD_CRAWLING"
        ELSE IF RobotsDisallowed(c, url) THEN "ROBOTS_TXT"
        ELSE IF FileType(c, url) THEN "FILE_TYPE"
        ELSE "KEEP"

\* HashMap::insert: the entry of the key is replaced
HashMapInsert(m, k, v) == {e \in m : e[1] # k} \cup {<<k, v>>}

TakeExhaustedOffByOne(yielded, n) == yielded > n

\* Take::next: no more items are asked of the filter once n were yielded
TakeExhausted(yielded, n) == yielded >= n

UrlsParseBaseOnly(b, i) == UrlParse(b).ok

\* lines 118-119: both URLs parse, or the call returns the error
UrlsParse(b, i) == UrlParse(b).ok /\ UrlParse(i).ok

\* the requests the model runs filter_links on
MaxLinks == 3
MaxPolicyLinks == 2

LinkEmptyHost == <<"h", "t", "t", "p", ":", "/", "/">>
LinkDeepFile == <<"/", "b", "/", "c", ".", "P", "N", "G">>
LinkPage == <<"h", "t", "t", "p", ":", "/", "/", "a", "/", "b">>
LinkRoot == <<"/">>
LinkPool == {LinkEmptyHost, LinkDeepFile, LinkPage, LinkRoot}

UrlRoot == <<"h", "t", "t", "p", ":", "/", "/", "a", "/">>
UrlSection == <<"h", "t", "t", "p", ":", "/", "/", "a", "/", "b", "/", "c">>
UrlNoScheme == <<"a", "/", "b">>

PatBroken == <<"(">>
PatC == <<"c">>
PatPathB == <<"^", "/", "b">>

RobotsDisallowB == << <<"user-agent", "*">>, <<"disallow", <<"/", "b", "/">>>> >>

LinkLists(max) == UNION {[1..n -> LinkPool] : n \in 0..max}
LimitPool == {<<>>, <<-1>>, <<0>>, <<1>>, <<2>>}

\* requests that vary the links, the limit and the two URLs
LimitRequests ==
    [links : LinkLists(MaxLinks),
     limit : LimitPool,
     max_depth : {1, 2},
     base_url : {UrlRoot, UrlNoScheme},
     initial_url : {UrlRoot, UrlSection, UrlNoScheme},
     regex_on_full_url : {FALSE},
     excludes : {<<>>},
     includes : {<<>>},
     allow_backward_crawling : BOOLEAN,
     ignore_robots_txt : BOOLEAN,
     robots_txt : {RobotsDisallowB}]

\* requests that vary what the seven checks read
PolicyRequests ==
    [links : LinkLists(MaxPolicyLinks),
     limit : {<<>>, <<1>>},
     max_depth : {1, 2},
     base_url : {UrlRoot},
     initial_url : {UrlSection},
     regex_on_full_url : BOOLEAN,
     excludes : {<<>>, <<PatBroken, PatC>>},
     includes : {<<>>, <<PatBroken>>, <<PatBroken, PatPathB>>},
     allow_backward_crawling : BOOLEAN,
     ignore_robots_txt : BOOLEAN,
     robots_txt : {RobotsDisallowB}]

HtmlIdle ==
    /\ opts = <<>>
    /\ tpc = "idle"
    /\ document = <<>>
    /\ effective_url = <<>>
    /\ tresult = <<>>
    /\ first = <<>>

MetaIdle ==
    /\ meta_html = <<>>
    /\ mpc = "idle"
    /\ meta_document = <<>>
    /\ meta_out = {}
    /\ metas = <<>>
    /\ mresult = "none"

SitemapIdle ==
    /\ sitemap_src = <<>>
    /\ xml_content = <<>>
    /\ sop = "idle"
    /\ spc = "idle"
    /\ parsed = <<>>
    /\ instructions = <<>>
    /\ total_count = 0
    /\ sresult = "none"

FilterIdle ==
    /\ fpc = "call"
    /\ limit = 0
    /\ base_url = UrlError
    /\ initial_url = UrlError
    /\ excludes_regex = <<>>
    /\ includes_regex = <<>>
    /\ consumed = 0
    /\ links = <<>>
    /\ denial_reasons = {}
    /\ fresult = "none"

Init ==
    /\ data \in LimitRequests
    /\ FilterIdle
    /\ SitemapIdle
    /\ HtmlIdle
    /\ MetaIdle

\* lines 105-125: the limit, the early return, the two URLs, the patterns
FilterEnter ==
    /\ fpc = "call"
    /\ limit' = EffectiveLimit(data.limit)
    /\ IF EffectiveLimit(data.limit) = 0
       THEN /\ fresult' = "ok"
            /\ fpc' = "returned"
            /\ UNCHANGED <<base_url, initial_url, excludes_regex, includes_regex>>
       ELSE IF ~UrlsParse(data.base_url, data.initial_url)
       THEN /\ fresult' = "err"
            /\ fpc' = "returned"
            /\ UNCHANGED <<base_url, initial_url, excludes_regex, includes_regex>>
       ELSE /\ base_url' = UrlParse(data.base_url)
            /\ initial_url' = UrlParse(data.initial_url)
            /\ excludes_regex' = CompilePatterns(data.excludes)
            /\ includes_regex' = CompilePatterns(data.includes)
            /\ fresult' = "none"
            /\ fpc' = "iter"
    /\ UNCHANGED <<data, consumed, links, denial_reasons, svars, tvars, mvars>>

\* lines 127-187: take() asks the filter for one more link
FilterNext ==
    /\ fpc = "iter"
    /\ ~TakeExhausted(Len(links), limit)
    /\ consumed < Len(data.links)
    /\ LET link    == data.links[consumed + 1]
           verdict == FilterClosure(Ctx, link)
       IN  /\ consumed' = consumed + 1
           /\ IF verdict = "KEEP"
              THEN links' = Append(links, link) /\ UNCHANGED denial_reasons
              ELSE denial_reasons' = HashMapInsert(denial_reasons, link, verdict)
                   /\ UNCHANGED links
    /\ UNCHANGED <<data, fpc, limit, base_url, initial_url, excludes_regex,
                   includes_regex, fresult, svars, tvars, mvars>>

\* lines 188-193: the chain is exhausted, the result is returned
FilterCollect ==
    /\ fpc = "iter"
    /\ TakeExhausted(Len(links), limit) \/ consumed = Len(data.links)
    /\ fresult' = "ok"
    /\ fpc' = "returned"
    /\ UNCHANGED <<data, limit, base_url, initial_url, excludes_regex, includes_regex,
                   consumed, links, denial_reasons, svars, tvars, mvars>>

Next == FilterEnter \/ FilterNext \/ FilterCollect

Spec == Init /\ [][Next]_vars

InitPolicy ==
    /\ data \in PolicyRequests
    /\ FilterIdle
    /\ SitemapIdle
    /\ HtmlIdle
    /\ MetaIdle

SpecPolicy == InitPolicy /\ [][Next]_vars

\* requests that vary the paths of the links, the depth allowed and the initial URL
MaxPathLinks == 2

LinkIndex == <<"/", "i", "n", "d", "e", "x", ".", "h", "t", "m", "l">>
LinkXY == <<"/", "x", "/", "y">>
LinkBlog == <<"/", "b", "l", "o", "g">>
LinkBlogger == <<"/", "b", "l", "o", "g", "g", "e", "r">>
LinkBlogIndex == <<"/", "b", "l", "o", "g", "/", "i", "n", "d", "e", "x", ".", "p", "h", "p">>
LinkOtherHost == <<"h", "t", "t", "p", ":", "/", "/", "b", "/", "b", "l", "o", "g", "/", "x">>
PathLinkPool == {LinkRoot, LinkIndex, LinkXY, LinkBlog, LinkBlogger, LinkBlogIndex,
                 LinkOtherHost, LinkEmptyHost}

UrlBlog == <<"h", "t", "t", "p", ":", "/", "/", "a", "/", "b", "l", "o", "g">>

PathRequests ==
    [links : UNION {[1..n -> PathLinkPool] : n \in 0..MaxPathLinks},
     limit : {<<>>},
     max_depth : {0, 1, 2},
     base_url : {UrlRoot},
     initial_url : {UrlRoot, UrlBlog},
     regex_on_full_url : {FALSE},
     excludes : {<<>>},
     includes : {<<>>},
     allow_backward_crawling : BOOLEAN,
     ignore_robots_txt : {TRUE},
     robots_txt : {RobotsDisallowB}]

InitPaths ==
    /\ data \in PathRequests
    /\ FilterIdle
    /\ SitemapIdle
    /\ HtmlIdle
    /\ MetaIdle

SpecPaths == InitPaths /\ [][Next]_vars

---------------------------------------------------------------------------
(* The sitemap classifier.  A sitemap text is a sequence of XML tokens     *)
(* <<"open", name>>, <<"close", name>> and <<"text", characters>>;         *)
(* roxmltree::Document::parse builds the tree of a well-formed text and    *)
(* fails on any other.                                                     *)

XmlFail == [ok |-> FALSE, nodes |-> <<>>, next |-> 0]

TextNode(t) == [kind |-> "text", name |-> "", text |-> t, children |-> <<>>]
ElemNode(n, ch) == [kind |-> "elem", name |-> n, text |-> <<>>, children |-> ch]

\* the nodes that start at token i, up to the close tag of the enclosing element
RECURSIVE XmlNodes(_, _)
XmlNodes(toks, i) ==
    IF i > Len(toks) THEN [ok |-> TRUE, nodes |-> <<>>, next |-> i]
    ELSE IF toks[i][1] = "close" THEN [ok |-> TRUE, nodes |-> <<>>, next |-> i]
    ELSE IF toks[i][1] = "text"
    THEN LET rest == XmlNodes(toks, i + 1)
         IN  IF rest.ok THEN [rest EXCEPT !.nodes = <<TextNode(toks[i][2])>> \o @]
             ELSE XmlFail
    ELSE LET inner == XmlNodes(toks, i + 1)
         IN  IF ~inner.ok \/ inner.next > Len(toks)
                \/ toks[inner.next] # <<"close", toks[i][2]>>
             THEN XmlFail
             ELSE LET rest == XmlNodes(toks, inner.next + 1)
                  IN  IF rest.ok
                      THEN [rest EXCEPT !.nodes = <<ElemNode(toks[i][2], inner.nodes)>> \o @]
                      ELSE XmlFail

\* Document::parse: exactly one root element and nothing but white space around it
DocumentParse(toks) ==
    LET r     == XmlNodes(toks, 1)
        elems == IF r.ok THEN SelectSeq(r.nodes, LAMBDA n : n.kind = "elem") ELSE <<>>
        texts == IF r.ok THEN SelectSeq(r.nodes, LAMBDA n : n.kind = "text") ELSE <<>>
    IN  IF r.ok /\ r.next = Len(toks) + 1 /\ Len(elems) = 1
           /\ \A k \in 1..Len(texts) : trim(texts[k].text) = <<>>
        THEN [ok |-> TRUE, root |-> elems[1]]
        ELSE [ok |-> FALSE, root |-> ElemNode("", <<>>)]

\* Node::text: the text of the first child when that child is a text node
NodeText(n) ==
    IF n.children # <<>> /\ n.children[1].kind = "text"
    THEN <<n.children[1].text>> ELSE <<>>

\* the first <loc> that has a text, instead of the first <loc>
FindLocWithText(n) ==
    LET locs == SelectSeq(n.children, LAMBDA c : c.kind = "elem" /\ c.name = "loc"
                                                  /\ c.children # <<>>)
    IN  IF locs = <<>> THEN <<>> ELSE <<locs[1]>>

\* children().find(|n| n.is_element() && n.tag_name().name() == "loc")
FindLoc(n) ==
    LET locs == SelectSeq(n.children, LAMBDA c : c.kind = "elem" /\ c.name = "loc")
    IN  IF locs = <<>> THEN <<>> ELSE <<locs[1]>>

\* lines 230-238 and 247-255: one entry per child of the given name whose first
\* <loc> has a text
RECURSIVE CollectLocs(_, _)
CollectLocs(children, tag) ==
    IF children = <<>> THEN <<>>
    ELSE LET n    == Head(children)
             loc  == IF n.kind = "elem" /\ n.name = tag THEN FindLoc(n) ELSE <<>>
             text == IF loc = <<>> THEN <<>> ELSE NodeText(loc[1])
         IN  (IF text = <<>> THEN <<>> ELSE <<[loc |-> <<text[1]>>]>>)
             \o CollectLocs(Tail(children), tag)

ParseErr == [ok |-> FALSE, variant |-> "", items |-> <<>>]

\* _parse_sitemap_xml
parse_sitemap_xml_inner(content) ==
    LET doc == DocumentParse(content)
    IN  IF ~doc.ok THEN ParseErr
        ELSE IF doc.root.name = "sitemapindex"
        THEN [ok |-> TRUE, variant |-> "SitemapIndex",
              items |-> CollectLocs(doc.root.children, "sitemap")]
        ELSE IF doc.root.name = "urlset"
        THEN [ok |-> TRUE, variant |-> "Urlset",
              items |-> CollectLocs(doc.root.children, "url")]
        ELSE ParseErr

DotXml == <<".", "x", "m", "l">>

\* the loop as the urlset arm would run it: a loc that does not parse as a URL, or that
\* names a file, is left out
RECURSIVE SitemapUrlsValidated(_)
SitemapUrlsValidated(items) ==
    IF items = <<>> THEN <<>>
    ELSE LET v == IF Head(items).loc # <<>> THEN trim(Head(items).loc[1]) ELSE <<>>
         IN  (IF Head(items).loc # <<>> /\ UrlParse(v).ok /\ ~is_file(UrlParse(v))
              THEN <<v>> ELSE <<>>)
             \o SitemapUrlsValidated(Tail(items))

\* lines 300-309: the trimmed first loc of every entry that has one
RECURSIVE SitemapUrls(_)
SitemapUrls(items) ==
    IF items = <<>> THEN <<>>
    ELSE (IF Head(items).loc # <<>> THEN <<trim(Head(items).loc[1])>> ELSE <<>>)
         \o SitemapUrls(Tail(items))

\* the loop with ends_with(".xml") on the value as written
RECURSIVE UrlsetLoopCaseSensitive(_, _)
UrlsetLoopCaseSensitive(items, acc) ==
    IF items = <<>> THEN acc
    ELSE LET e   == Head(items)
             url == IF e.loc # <<>> THEN trim(e.loc[1]) ELSE <<>>
         IN  UrlsetLoopCaseSensitive(Tail(items),
               IF e.loc = <<>> THEN acc
               ELSE IF ends_with(url, DotXml)
               THEN [acc EXCEPT !.xml_sitemaps = Append(@, url)]
               ELSE IF UrlParse(url).ok /\ ~is_file(UrlParse(url))
               THEN [acc EXCEPT !.valid_urls = Append(@, url)]
               ELSE acc)

\* lines 324-335: the loop over urlset.url, acc = [xml_sitemaps, valid_urls]
RECURSIVE UrlsetLoop(_, _)
UrlsetLoop(items, acc) ==
    IF items = <<>> THEN acc
    ELSE LET e   == Head(items)
             url == IF e.loc # <<>> THEN trim(e.loc[1]) ELSE <<>>
         IN  UrlsetLoop(Tail(items),
               IF e.loc = <<>> THEN acc
               ELSE IF ends_with(to_lowercase(url), DotXml)
               THEN [acc EXCEPT !.xml_sitemaps = Append(@, url)]
               ELSE IF UrlParse(url).ok /\ ~is_file(UrlParse(url))
               THEN [acc EXCEPT !.valid_urls = Append(@, url)]
               ELSE acc)

\* the push without the is_empty() test
PushAlways(st, action, urls) ==
    [instructions |-> Append(st.instructions,
                             [action |-> action, urls |-> urls, count |-> Len(urls)]),
     total_count |-> st.total_count + Len(urls)]

\* lines 311-318, 337-353: a non-empty list is pushed as an instruction and counted
PushIfAny(st, action, urls) ==
    IF urls # <<>>
    THEN [instructions |-> Append(st.instructions,
                                  [action |-> action, urls |-> urls, count |-> Len(urls)]),
          total_count |-> st.total_count + Len(urls)]
    ELSE st

NoInstructions == [instructions |-> <<>>, total_count |-> 0]

\* lines 298-355: the instructions and the total of a parsed sitemap
ProcessParsed(p) ==
    IF p.variant = "SitemapIndex"
    THEN PushIfAny(NoInstructions, "recurse", SitemapUrls(p.items))
    ELSE LET acc == UrlsetLoop(p.items, [xml_sitemaps |-> <<>>, valid_urls |-> <<>>])
         IN  PushIfAny(PushIfAny(NoInstructions, "recurse", acc.xml_sitemaps),
                       "process", acc.valid_urls)

\* the sitemap texts the model runs on: a root, its entries, written out as tokens,
\* whole or damaged
MaxEntries == 2

LocPage == <<" ", "h", "t", "t", "p", ":", "/", "/", "a", "/", "p", "\n">>
LocXml == <<"h", "t", "t", "p", ":", "/", "/", "a", "/", "s", ".", "X", "M", "L">>
LocImage == <<"H", "T", "T", "P", ":", "/", "/", "A", "/", "i", ".", "P", "N", "G">>
LocRelative == <<"/", "p">>
LocRelativeXml == <<"s", ".", "x", "m", "l">>
LocPool == {LocPage, LocXml, LocImage, LocRelative, LocRelativeXml}

\* an entry: its tag and the texts of its <loc> children, <<>> for an empty <loc>
EntryPool ==
    {[tag |-> "url", locs |-> <<t>>] : t \in LocPool}
    \cup {[tag |-> "sitemap", locs |-> <<t>>] : t \in {LocPage, LocImage, LocRelative}}
    \cup {[tag |-> "url", locs |-> <<>>],
          [tag |-> "sitemap", locs |-> << <<>>, LocPage >>],
          [tag |-> "url", locs |-> << <<>>, LocPage >>],
          [tag |-> "url", locs |-> <<LocXml, LocPage>>]}

RootPool == {"urlset", "sitemapindex", "feed"}
DamagePool == {"none", "unclosed", "trailing"}

SitemapSources ==
    [root : RootPool,
     entries : UNION {[1..n -> EntryPool] : n \in 0..MaxEntries},
     damage : DamagePool]

RECURSIVE RenderLocs(_)
RenderLocs(locs) ==
    IF locs = <<>> THEN <<>>
    ELSE << <<"open", "loc">> >>
         \o (IF Head(locs) = <<>> THEN <<>> ELSE << <<"text", Head(locs)>> >>)
         \o << <<"close", "loc">> >> \o RenderLocs(Tail(locs))

RECURSIVE RenderEntries(_)
RenderEntries(es) ==
    IF es = <<>> THEN <<>>
    ELSE << <<"text", <<"\n">> >>, <<"open", Head(es).tag>>,
            <<"open", "lastmod">>, <<"text", <<"d">> >>, <<"close", "lastmod">> >>
         \o RenderLocs(Head(es).locs)
         \o << <<"close", Head(es).tag>> >> \o RenderEntries(Tail(es))

Render(src) ==
    LET whole == << <<"open", src.root>> >> \o RenderEntries(src.entries)
                 \o << <<"close", src.root>> >>
    IN  IF src.damage = "unclosed" THEN SubSeq(whole, 1, Len(whole) - 1)
        ELSE IF src.damage = "trailing" THEN whole \o << <<"close", src.root>> >>
        ELSE whole

InitSitemap ==
    /\ sitemap_src \in SitemapSources
    /\ xml_content = Render(sitemap_src)
    /\ sop \in {"parse", "process"}
    /\ spc = "call"
    /\ parsed = ParseErr
    /\ instructions = <<>>
    /\ total_count = 0
    /\ sresult = "none"
    /\ data = <<>>
    /\ FilterIdle
    /\ HtmlIdle
    /\ MetaIdle

\* parse_sitemap_xml, and line 294 of _process_sitemap
SitemapParse ==
    /\ spc = "call"
    /\ parsed' = parse_sitemap_xml_inner(xml_content)
    /\ IF sop = "parse" \/ ~parsed'.ok
       THEN /\ sresult' = (IF parsed'.ok THEN "ok" ELSE "err")
            /\ spc' = "returned"
       ELSE /\ sresult' = "none"
            /\ spc' = "parsed"
    /\ UNCHANGED <<sitemap_src, xml_content, sop, instructions, total_count, fvars, tvars, mvars>>

\* lines 295-360 of _process_sitemap
SitemapProcess ==
    /\ spc = "parsed"
    /\ instructions' = ProcessParsed(parsed).instructions
    /\ total_count' = ProcessParsed(parsed).total_count
    /\ sresult' = "ok"
    /\ spc' = "returned"
    /\ UNCHANGED <<sitemap_src, xml_content, sop, parsed, fvars, tvars, mvars>>

NextSitemap == SitemapParse \/ SitemapProcess

SpecSitemap == InitSitemap /\ [][NextSitemap]_vars

---------------------------------------------------------------------------
(* The HTML side (apps/api/sharedLibs/html-transformer/src/lib.rs, the     *)
(* same functions as apps/api/native/src/lib.rs).  An HTML text is a       *)
(* sequence of tokens <<"open", tag, attributes>>, <<"close", tag>> and    *)
(* <<"text", characters>>; attributes are a sequence of <<name, value>>    *)
(* pairs.  kuchikiki's document is an arena: nodes[n] is the label of node *)
(* n, kids[n] its children in order, top the children of the document      *)
(* node.  A detached node keeps its subtree but is no one's child.         *)

\* Attributes::get
AttrGet(attrs, name) ==
    LET hits == SelectSeq(attrs, LAMBDA a : a[1] = name)
    IN  IF hits = <<>> THEN <<>> ELSE <<hits[1][2]>>

\* Attributes::insert: the value of an attribute is replaced, a new one is added
AttrInsert(attrs, name, value) ==
    IF AttrGet(attrs, name) = <<>> THEN Append(attrs, <<name, value>>)
    ELSE [i \in 1..Len(attrs) |-> IF attrs[i][1] = name THEN <<name, value>> ELSE attrs[i]]

Element(tag, attrs) == [tag |-> tag, attrs |-> attrs, text |-> <<>>]
Text(chars) == [tag |-> "#text", attrs |-> <<>>, text |-> chars]

IsElement(doc, n) == doc.nodes[n].tag # "#text"

\* the parent of n, 0 when n is a child of the document node or detached
ParentOf(doc, n) ==
    IF \E p \in 1..Len(doc.kids) : \E i \in 1..Len(doc.kids[p]) : doc.kids[p][i] = n
    THEN CHOOSE p \in 1..Len(doc.kids) : \E i \in 1..Len(doc.kids[p]) : doc.kids[p][i] = n
    ELSE 0

\* a new node, appended as the last child of parent (0: of the document node)
AddNode(doc, parent, label) ==
    LET n == Len(doc.nodes) + 1
    IN  [nodes |-> Append(doc.nodes, label),
         kids  |-> [i \in 1..n |-> IF i = n THEN <<>>
                                   ELSE IF i = parent THEN Append(doc.kids[i], n)
                                   ELSE doc.kids[i]],
         top   |-> IF parent = 0 THEN Append(doc.top, n) ELSE doc.top]

\* NodeRef::detach
Detach(doc, n) ==
    [doc EXCEPT !.kids = [i \in 1..Len(doc.kids) |->
                             SelectSeq(doc.kids[i], LAMBDA k : k # n)],
                !.top = SelectSeq(doc.top, LAMBDA k : k # n)]

RECURSIVE DetachAll(_, _)
DetachAll(doc, ns) == IF ns = <<>> THEN doc ELSE DetachAll(Detach(doc, Head(ns)), Tail(ns))

\* NodeRef::append: the node leaves its place and becomes the last child of parent
AppendChild(doc, parent, n) ==
    LET d == Detach(doc, n)
    IN  [d EXCEPT !.kids[parent] = Append(d.kids[parent], n)]

\* the nodes below the given ones, these included, in document order
RECURSIVE Descendants(_, _)
Descendants(doc, ns) ==
    IF ns = <<>> THEN <<>>
    ELSE <<Head(ns)>> \o Descendants(doc, doc.kids[Head(ns)]) \o Descendants(doc, Tail(ns))

\* NodeRef::text_contents: the texts below n, one after the other
RECURSIVE Concat(_)
Concat(ss) == IF ss = <<>> THEN <<>> ELSE Head(ss) \o Concat(Tail(ss))

text_contents(doc, n) ==
    LET below == Descendants(doc, <<n>>)
    IN  Concat([i \in 1..Len(below) |-> doc.nodes[below[i]].text])

(* parse_html (html5ever's tree builder) on the texts of the model: the     *)
(* html, head and body elements always exist; title, meta, link, base,     *)
(* style, script and noscript go into head until the first other content;  *)
(* a start tag of html or body met later only adds the attributes the      *)
(* element does not have, a head tag met later is ignored; void elements   *)
(* have no content; an end tag closes the open elements up to its own; at  *)
(* the end of the text every open element is closed.                       *)

HeadTags == {"title", "meta", "link", "base", "style", "script", "noscript"}
VoidTags == {"meta", "link", "base", "img", "br"}
RootTags == {"html", "head", "body"}

HtmlNode == 1
HeadNode == 2
BodyNode == 3

EmptyDocument ==
    [nodes |-> <<Element("html", <<>>), Element("head", <<>>), Element("body", <<>>)>>,
     kids  |-> << <<HeadNode, BodyNode>>, <<>>, <<>> >>,
     top   |-> <<HtmlNode>>]

RECURSIVE MergeAttrs(_, _)
MergeAttrs(attrs, more) ==
    IF more = <<>> THEN attrs
    ELSE MergeAttrs(IF AttrGet(attrs, Head(more)[1]) = <<>> THEN Append(attrs, Head(more))
                    ELSE attrs, Tail(more))

\* the open elements up to and including the last one with the given tag are closed
RECURSIVE PopTo(_, _, _)
PopTo(doc, stack, tag) ==
    IF stack = <<>> THEN <<>>
    ELSE IF doc.nodes[stack[Len(stack)]].tag = tag THEN SubSeq(stack, 1, Len(stack) - 1)
    ELSE PopTo(doc, SubSeq(stack, 1, Len(stack) - 1), tag)

RECURSIVE TreeBuilder(_, _)
TreeBuilder(toks, st) ==
    IF toks = <<>> THEN st.doc
    ELSE LET t       == Head(toks)
             inHead  == st.stack = <<>> /\ st.mode = "head"
             current == IF st.stack # <<>> THEN st.stack[Len(st.stack)]
                        ELSE IF st.mode = "head" THEN HeadNode ELSE BodyNode
         IN  IF t[1] = "open" /\ t[2] \in RootTags
             THEN TreeBuilder(Tail(toks),
                      [st EXCEPT !.doc.nodes[HtmlNode].attrs =
                                     IF t[2] = "html" THEN MergeAttrs(@, t[3]) ELSE @,
                                 !.doc.nodes[BodyNode].attrs =
                                     IF t[2] = "body" THEN MergeAttrs(@, t[3]) ELSE @,
                                 !.mode = IF t[2] = "body" THEN "body" ELSE @])
             ELSE IF t[1] = "close" /\ t[2] \in RootTags
             THEN TreeBuilder(Tail(toks), st)
             ELSE IF inHead /\ ~(t[1] = "open" /\ t[2] \in HeadTags)
             THEN TreeBuilder(toks, [st EXCEPT !.mode = "body"])
             ELSE IF t[1] = "open"
             THEN LET d == AddNode(st.doc, current, Element(t[2], t[3]))
                  IN  TreeBuilder(Tail(toks),
                          [st EXCEPT !.doc = d,
                                     !.stack = IF t[2] \in VoidTags THEN @
                                               ELSE Append(@, Len(d.nodes))])
             ELSE IF t[1] = "text"
             THEN TreeBuilder(Tail(toks), [st EXCEPT !.doc = AddNode(st.doc, current, Text(t[2]))])
             ELSE IF \E i \in 1..Len(st.stack) : st.doc.nodes[st.stack[i]].tag = t[2]
             THEN TreeBuilder(Tail(toks), [st EXCEPT !.stack = PopTo(st.doc, @, t[2])])
             ELSE TreeBuilder(Tail(toks), st)

parse_html(html) == TreeBuilder(html, [doc |-> EmptyDocument, stack |-> <<>>, mode |-> "head"])

\* NodeRef::to_string: the tokens of the nodes below the document node
RECURSIVE Serialize(_, _)
Serialize(doc, ns) ==
    IF ns = <<>> THEN <<>>
    ELSE LET l == doc.nodes[Head(ns)]
         IN  (IF l.tag = "#text" THEN << <<"text", l.text>> >>
              ELSE << <<"open", l.tag, l.attrs>> >> \o Serialize(doc, doc.kids[Head(ns)])
                   \o (IF l.tag \in VoidTags THEN <<>> ELSE << <<"close", l.tag>> >>))
             \o Serialize(doc, Tail(ns))

to_string(doc) == Serialize(doc, doc.top)

(* kuchikiki's selectors.  A selector text is a sequence of tokens: names,  *)
(* ".", "#", "[", "]", "=", "*=" and the combinators ">" and " "; it is     *)
(* compiled to compound selectors joined by combinators, or rejected.      *)

Punct == {".", "#", "[", "]", "=", "*=", ">", " "}
Combinators == {">", " "}

\* the conditions of a compound selector after its tag
RECURSIVE CompileConds(_)
CompileConds(p) ==
    IF p = <<>> THEN [ok |-> TRUE, conds |-> <<>>]
    ELSE LET two == Len(p) >= 2 /\ p[2] \notin Punct
             rest(k, c) == LET r == CompileConds(Drop(p, k))
                           IN  [ok |-> r.ok, conds |-> <<c>> \o r.conds]
         IN  IF p[1] = "." /\ two THEN rest(2, <<"class", p[2]>>)
             ELSE IF p[1] = "#" /\ two THEN rest(2, <<"id", p[2]>>)
             ELSE IF p[1] = "[" /\ two /\ Len(p) >= 3 /\ p[3] = "]"
             THEN rest(3, <<"has", p[2]>>)
             ELSE IF p[1] = "[" /\ two /\ Len(p) >= 5 /\ p[3] \in {"=", "*="}
                     /\ p[4] \notin Punct /\ p[5] = "]"
             THEN rest(5, <<p[3], p[2], p[4]>>)
             ELSE [ok |-> FALSE, conds |-> <<>>]

CompileCompound(p) ==
    IF p = <<>> THEN [ok |-> FALSE, tag |-> "", conds |-> <<>>]
    ELSE LET named == p[1] \notin Punct
             r     == CompileConds(IF named THEN Tail(p) ELSE p)
         IN  [ok |-> r.ok, tag |-> IF named THEN p[1] ELSE "", conds |-> r.conds]

\* the compound selectors of a text and the combinators between them
RECURSIVE CompileSelector(_)
CompileSelector(toks) ==
    LET i    == FindAny(toks, Combinators)
        comp == CompileCompound(SubSeq(toks, 1, i - 1))
    IN  IF i > Len(toks) THEN [ok |-> comp.ok, parts |-> <<comp>>, combs |-> <<>>]
        ELSE LET r == CompileSelector(Drop(toks, i))
             IN  [ok |-> comp.ok /\ r.ok, parts |-> <<comp>> \o r.parts,
                  combs |-> <<toks[i]>> \o r.combs]

CondHolds(attrs, c) ==
    LET v == AttrGet(attrs, IF c[1] \in {"class", "id"} THEN c[1] ELSE c[2])
    IN  /\ v # <<>>
        /\ CASE c[1] = "class" -> \E i \in 1..Len(v[1]) : v[1][i] = c[2]
             [] c[1] = "id"    -> v[1] = <<c[2]>>
             [] c[1] = "has"   -> TRUE
             [] c[1] = "="     -> v[1] = <<c[3]>>
             [] c[1] = "*="    -> \E i \in 1..Len(v[1]) : v[1][i] = c[3]

CompoundMatches(label, comp) ==
    /\ label.tag # "#text"
    /\ comp.tag = "" \/ comp.tag = label.tag
    /\ \A i \in 1..Len(comp.conds) : CondHolds(label.attrs, comp.conds[i])

RECURSIVE Ancestors(_, _)
Ancestors(doc, n) ==
    LET p == ParentOf(doc, n)
    IN  IF p = 0 THEN <<>> ELSE <<p>> \o Ancestors(doc, p)

\* node n matches the first k compound selectors of sel, read from the right
RECURSIVE Matches(_, _, _, _)
Matches(doc, n, sel, k) ==
    /\ CompoundMatches(doc.nodes[n], sel.parts[k])
    /\ \/ k = 1
       \/ /\ sel.combs[k - 1] = ">"
          /\ ParentOf(doc, n) # 0
          /\ Matches(doc, ParentOf(doc, n), sel, k - 1)
       \/ /\ sel.combs[k - 1] = " "
          /\ LET up == Ancestors(doc, n)
             IN  \E i \in 1..Len(up) : Matches(doc, up[i], sel, k - 1)

\* NodeRef::select: Err for a text that is no selector, else the matching elements
\* below the given nodes, these included, in document order
select(doc, roots, toks) ==
    LET sel == CompileSelector(toks)
    IN  IF ~sel.ok THEN [ok |-> FALSE, found |-> <<>>]
        ELSE [ok |-> TRUE,
              found |-> SelectSeq(Descendants(doc, roots),
                                  LAMBDA n : Matches(doc, n, sel, Len(sel.parts)))]

\* NodeRef::select_first: Err for a text that is no selector and when nothing matches
select_first(doc, roots, toks) ==
    LET r == select(doc, roots, toks)
    IN  IF r.ok /\ r.found # <<>> THEN <<r.found[1]>> ELSE <<>>

(* transform_html.  Strings of the HTML side are sequences of atoms: one   *)
(* character, or a run of characters no operation looks into ("a.jpg").    *)

\* str::contains
Contains(s, sub) ==
    \E i \in 0..(Len(s) - Len(sub)) : SubSeq(s, i + 1, i + Len(sub)) = sub

\* lines 9-19: the first <base href> joined to the page URL, else the page URL
extract_base_href_from_document(doc, page) ==
    LET bases == select(doc, doc.top, <<"base", "[", "href", "]">>).found
        href  == IF bases = <<>> THEN <<>> ELSE AttrGet(doc.nodes[bases[1]].attrs, "href")
    IN  IF href # <<>> /\ UrlJoin(page, href[1]).ok
        THEN as_str(UrlJoin(page, href[1]))
        ELSE as_str(page)

\* the nodes of another document, added to the arena under new numbers; top is kept
Import(doc, other) ==
    LET n == Len(doc.nodes)
    IN  [nodes |-> doc.nodes \o other.nodes,
         kids  |-> doc.kids \o [i \in 1..Len(other.kids) |->
                                   [j \in 1..Len(other.kids[i]) |-> other.kids[i][j] + n]],
         top   |-> doc.top]

DivText == << <<"open", "div", <<>> >>, <<"close", "div">> >>

\* lines 343-345: every match becomes the last child of root
RECURSIVE AppendEach(_, _, _)
AppendEach(doc, root, tags) ==
    IF tags = <<>> THEN doc
    ELSE AppendEach(AppendChild(doc, root, Head(tags)), root, Tail(tags))

\* lines 341-346: Err at the first text that is no selector
RECURSIVE IncludeLoop(_, _, _)
IncludeLoop(doc, root, tags) ==
    IF tags = <<>> THEN [ok |-> TRUE, doc |-> doc]
    ELSE LET matching_nodes == select(doc, doc.top, Head(tags))
         IN  IF ~matching_nodes.ok THEN [ok |-> FALSE, doc |-> doc]
             ELSE IncludeLoop(AppendEach(doc, root, matching_nodes.found), root, Tail(tags))

\* lines 337-349: the matches of include_tags under the <div> of a new document
IncludeTags(doc, include_tags) ==
    IF include_tags = <<>> THEN [ok |-> TRUE, doc |-> doc]
    ELSE LET new_document == parse_html(DivText)
             n    == Len(doc.nodes)
             root == select_first(new_document, new_document.top, <<"div">>)[1] + n
             r    == IncludeLoop(Import(doc, new_document), root, include_tags)
         IN  [ok |-> r.ok,
              doc |-> [r.doc EXCEPT !.top = [j \in 1..Len(new_document.top) |->
                                               new_document.top[j] + n]]]

\* while let Ok(x) = document.select_first(sel) { x.detach() }
RECURSIVE DetachWhile(_, _)
DetachWhile(doc, sel) ==
    LET x == select_first(doc, doc.top, sel)
    IN  IF x = <<>> THEN doc ELSE DetachWhile(Detach(doc, x[1]), sel)

RECURSIVE DetachWhileEach(_, _)
DetachWhileEach(doc, sels) ==
    IF sels = <<>> THEN doc
    ELSE DetachWhileEach(DetachWhile(doc, Head(sels)), Tail(sels))

\* lines 351-369
StripTags == << <<"head">>, <<"meta">>, <<"noscript">>, <<"style">>, <<"script">> >>

\* the exclusion that gives up at the first text that is no selector
RECURSIVE ExcludeTagsUntilInvalid(_, _)
ExcludeTagsUntilInvalid(doc, exclude_tags) ==
    IF exclude_tags = <<>> \/ ~CompileSelector(Head(exclude_tags)).ok THEN doc
    ELSE ExcludeTagsUntilInvalid(DetachWhile(doc, Head(exclude_tags)), Tail(exclude_tags))

\* lines 408-413: select_first gives Err for a text that is no selector, and the
\* while loop of that text ends at once
ExcludeTags(doc, exclude_tags) == DetachWhileEach(doc, exclude_tags)

\* x.split(':').nth(1)
SecondSegment(x) ==
    LET pieces == split(x, ":")
    IN  IF Len(pieces) >= 2 THEN <<pieces[2]>> ELSE <<>>

\* nodesig: a mode is known by its name
SignatureMode(name) == name

\* nodesig::get_node_signature: payload, mode and what follows, joined by ":"
get_node_signature(doc, n, mode) == <<doc.nodes[n].tag, ":">> \o mode \o <<":">>

\* line 376: unwrap() on a signature that has no second segment
OmcePanics(signatures) ==
    \E i \in 1..Len(signatures) : SecondSegment(signatures[i]) = <<>>

\* the traversal without the test of line 389 on the text of the element
nodes_to_dropBlankToo(doc, signatures) ==
    LET modes == {SignatureMode(SecondSegment(signatures[i])[1]) : i \in 1..Len(signatures)}
        of(mode) == {signatures[i] : i \in {j \in 1..Len(signatures) :
                         Contains(signatures[j], <<":">> \o mode \o <<":">>)}}
    IN  SelectSeq(Descendants(doc, doc.top),
                  LAMBDA n : /\ IsElement(doc, n)
                             /\ \E mode \in modes :
                                    get_node_signature(doc, n, mode) \in of(mode))

\* lines 376-400: the elements with a text whose signature, in a mode of the list, is
\* one of the signatures of that mode
nodes_to_drop(doc, signatures) ==
    LET modes == {SignatureMode(SecondSegment(signatures[i])[1]) : i \in 1..Len(signatures)}
        of(mode) == {signatures[i] : i \in {j \in 1..Len(signatures) :
                         Contains(signatures[j], <<":">> \o mode \o <<":">>)}}
    IN  SelectSeq(Descendants(doc, doc.top),
                  LAMBDA n : /\ IsElement(doc, n)
                             /\ trim(text_contents(doc, n)) # <<>>
                             /\ \E mode \in modes :
                                    get_node_signature(doc, n, mode) \in of(mode))

\* lines 255-297
EXCLUDE_NON_MAIN_TAGS ==
    << <<"header">>, <<"footer">>, <<"nav">>, <<"aside">>, <<".", "header">>,
       <<".", "top">>, <<".", "navbar">>, <<"#", "header">>, <<".", "footer">>,
       <<".", "bottom">>, <<"#", "footer">>, <<".", "sidebar">>, <<".", "side">>,
       <<".", "aside">>, <<"#", "sidebar">>, <<".", "modal">>, <<".", "popup">>,
       <<"#", "modal">>, <<".", "overlay">>, <<".", "ad">>, <<".", "ads">>,
       <<".", "advert">>, <<"#", "ad">>, <<".", "lang-selector">>, <<".", "language">>,
       <<"#", "language-selector">>, <<".", "social">>, <<".", "social-media">>,
       <<".", "social-links">>, <<"#", "social">>, <<".", "menu">>,
       <<".", "navigation">>, <<"#", "nav">>, <<".", "breadcrumbs">>,
       <<"#", "breadcrumbs">>, <<".", "share">>, <<"#", "share">>, <<".", "widget">>,
       <<"#", "widget">>, <<".", "cookie">>, <<"#", "cookie">> >>

\* lines 299-315
FORCE_INCLUDE_MAIN_TAGS ==
    << <<"#", "main">>, <<".", "swoogo-cols">>, <<".", "swoogo-text">>,
       <<".", "swoogo-table-div">>, <<".", "swoogo-space">>, <<".", "swoogo-alert">>,
       <<".", "swoogo-sponsors">>, <<".", "swoogo-title">>, <<".", "swoogo-tabs">>,
       <<".", "swoogo-logo">>, <<".", "swoogo-image">>, <<".", "swoogo-button">>,
       <<".", "swoogo-agenda">> >>

\* the test of line 419 on the element alone, its descendants left out
ForceIncludedSelfOnly(doc, tag) ==
    \E i \in 1..Len(FORCE_INCLUDE_MAIN_TAGS) :
        LET sel == CompileSelector(FORCE_INCLUDE_MAIN_TAGS[i])
        IN  Matches(doc, tag, sel, Len(sel.parts))

\* line 419: a force-include selector finds something at or below the element
ForceIncluded(doc, tag) ==
    \E i \in 1..Len(FORCE_INCLUDE_MAIN_TAGS) :
        LET x == select(doc, <<tag>>, FORCE_INCLUDE_MAIN_TAGS[i])
        IN  x.ok /\ x.found # <<>>

\* lines 418-422
RECURSIVE DenyEach(_, _)
DenyEach(doc, tags) ==
    IF tags = <<>> THEN doc
    ELSE DenyEach(IF ~ForceIncluded(doc, Head(tags)) THEN Detach(doc, Head(tags)) ELSE doc,
                  Tail(tags))

\* the denylist stage without the test of line 419
RECURSIVE DenyLoopNoForceInclude(_, _)
DenyLoopNoForceInclude(doc, sels) ==
    IF sels = <<>> THEN doc
    ELSE LET next == DetachAll(doc, select(doc, doc.top, Head(sels)).found)
         IN  IF next.top = <<>> THEN next ELSE DenyLoopNoForceInclude(next, Tail(sels))

\* lines 416-423; once nothing is left in the document no selector finds anything
RECURSIVE DenyLoop(_, _)
DenyLoop(doc, sels) ==
    IF sels = <<>> THEN doc
    ELSE LET next == DenyEach(doc, select(doc, doc.top, Head(sels)).found)
         IN  IF next.top = <<>> THEN next ELSE DenyLoop(next, Tail(sels))

\* str::parse::<f64> on the numerals of the model, in tenths; "NaN" is a number to it
Numerals == << <<"0.5", 5>>, <<"1", 10>>, <<"2", 20>>, <<"300", 3000>>, <<"600", 6000>> >>

ParseF64(s) ==
    IF s = <<"NaN">> THEN [ok |-> TRUE, nan |-> TRUE, v |-> 0]
    ELSE IF Len(s) = 1 /\ \E i \in 1..Len(Numerals) : Numerals[i][1] = s[1]
    THEN [ok |-> TRUE, nan |-> FALSE,
          v |-> Numerals[CHOOSE i \in 1..Len(Numerals) : Numerals[i][1] = s[1]][2]]
    ELSE [ok |-> FALSE, nan |-> FALSE, v |-> 0]

\* [&str]::join
RECURSIVE JoinWith(_, _)
JoinWith(pieces, sep) ==
    IF pieces = <<>> THEN <<>>
    ELSE IF Len(pieces) = 1 THEN pieces[1]
    ELSE pieces[1] \o sep \o JoinWith(Tail(pieces), sep)

\* lines 428-450: the ImageSource of one entry of a srcset, <<>> when it has none
ImageSourceOf(x) ==
    LET tok   == split(trim(x), " ")
        last  == tok[Len(tok)]
        used  == Len(tok) > 1 /\ last # <<>>
                 /\ (ends_with(last, <<"x">>) \/ ends_with(last, <<"w">>))
        last_token  == IF used THEN last ELSE <<"1", "x">>
        parsed_size == ParseF64(SubSeq(last_token, 1, Len(last_token) - 1))
    IN  IF parsed_size.ok
        THEN <<[url |-> IF used THEN JoinWith(SubSeq(tok, 1, Len(tok) - 1), <<" ">>)
                        ELSE JoinWith(tok, <<" ">>),
                size |-> parsed_size,
                is_x |-> ends_with(last_token, <<"x">>)]>>
        ELSE <<>>

\* line 463: the comparison handed to sort_by says Less when a is the bigger one
IsLess(a, b) == ~a.size.nan /\ ~b.size.nan /\ b.size.v < a.size.v

\* slice::sort_by on a short slice: each element moves left past the ones it is less than
RECURSIVE InsertTail(_, _)
InsertTail(sorted, x) ==
    IF sorted = <<>> THEN <<x>>
    ELSE IF IsLess(x, sorted[Len(sorted)])
    THEN Append(InsertTail(SubSeq(sorted, 1, Len(sorted) - 1), x), sorted[Len(sorted)])
    ELSE Append(sorted, x)

RECURSIVE sort_by(_, _)
sort_by(v, sorted) ==
    IF v = <<>> THEN sorted ELSE sort_by(Tail(v), InsertTail(sorted, Head(v)))

\* lines 453-461
WithSrc(sizes, src) ==
    IF (\A i \in 1..Len(sizes) : sizes[i].is_x) /\ src # <<>>
    THEN Append(sizes, [url |-> src[1], size |-> [ok |-> TRUE, nan |-> FALSE, v |-> 10],
                        is_x |-> TRUE])
    ELSE sizes

\* lines 428-467 for one <img srcset>: the new value of src, <<>> when src is left alone
Biggest(attrs) ==
    LET entries == split(AttrGet(attrs, "srcset")[1], ",")
        sizes   == Concat([i \in 1..Len(entries) |-> ImageSourceOf(entries[i])])
        sorted  == sort_by(WithSrc(sizes, AttrGet(attrs, "src")), <<>>)
    IN  IF sorted = <<>> THEN <<>> ELSE <<sorted[1].url>>

\* lines 426-468
RECURSIVE SrcsetLoop(_, _)
SrcsetLoop(doc, imgs) ==
    IF imgs = <<>> THEN doc
    ELSE LET img == Head(imgs)
             biggest == Biggest(doc.nodes[img].attrs)
         IN  SrcsetLoop(IF biggest = <<>> THEN doc
                        ELSE [doc EXCEPT !.nodes[img].attrs = AttrInsert(@, "src", biggest[1])],
                        Tail(imgs))

\* the rewriting that empties an attribute it cannot join
ResolveOrClear(url, old) ==
    IF UrlJoin(url, old).ok THEN as_str(UrlJoin(url, old)) ELSE <<>>

\* lines 473-475 and 481-483: the joined value, the old one when the join fails
Resolve(url, old) ==
    IF UrlJoin(url, old).ok THEN as_str(UrlJoin(url, old)) ELSE old

\* lines 470-476 and 478-484
RECURSIVE RewriteLoop(_, _, _, _)
RewriteLoop(doc, url, ns, name) ==
    IF ns = <<>> THEN doc
    ELSE LET old == AttrGet(doc.nodes[Head(ns)].attrs, name)[1]
         IN  RewriteLoop([doc EXCEPT !.nodes[Head(ns)].attrs =
                                        AttrInsert(@, name, Resolve(url, old))],
                         url, Tail(ns), name)

\* the stages of lines 337-486 in the order the code runs them, with OMCE after the
\* exclusion
StageAfterExcludeFirst(stage) ==
    CASE stage = "include"   -> "strip"
      [] stage = "strip"     -> "exclude"
      [] stage = "exclude"   -> "omce"
      [] stage = "omce"      -> "denylist"
      [] stage = "denylist"  -> "srcset"
      [] stage = "srcset"    -> "rewrite"
      [] stage = "rewrite"   -> "serialize"
      [] stage = "serialize" -> "returned"

\* the stages of lines 337-486 in the order the code runs them
StageAfter(stage) ==
    CASE stage = "include"   -> "strip"
      [] stage = "strip"     -> "omce"
      [] stage = "omce"      -> "exclude"
      [] stage = "exclude"   -> "denylist"
      [] stage = "denylist"  -> "srcset"
      [] stage = "srcset"    -> "rewrite"
      [] stage = "rewrite"   -> "serialize"
      [] stage = "serialize" -> "returned"

ErrorPrefix == <<"RUSTFC", ":", "ERROR">>

Running == [kind |-> "none", text |-> <<>>]
\* line 504: format!("RUSTFC:ERROR:{}", e)
Failed(e) == [kind |-> "err", text |-> ErrorPrefix \o <<":", e>>]
\* line 498
FailedBare == [kind |-> "err", text |-> ErrorPrefix]
Panicked == [kind |-> "panic", text |-> <<>>]

Leave(result) ==
    /\ tresult' = result
    /\ tpc' = "returned"

\* lines 495-500 and 334-335: the options are read, the text is parsed, the effective
\* base URL is found
TransformCall ==
    /\ tpc = "call"
    /\ IF opts.wire # "json"
       THEN Leave(FailedBare) /\ UNCHANGED <<document, effective_url>>
       ELSE LET doc  == parse_html(opts.html)
                page == UrlParse(opts.url)
                base == UrlParse(extract_base_href_from_document(doc, page))
            IN  /\ document' = doc
                /\ IF ~page.ok \/ ~base.ok
                   THEN Leave(Failed("url::ParseError")) /\ UNCHANGED effective_url
                   ELSE effective_url' = base /\ tpc' = "include" /\ UNCHANGED tresult
    /\ UNCHANGED <<opts, first, fvars, svars, mvars>>

\* lines 337-349
TransformInclude ==
    /\ tpc = "include"
    /\ LET r == IncludeTags(document, opts.include_tags)
       IN  IF ~r.ok
           THEN Leave(Failed("Failed to include_tags tags")) /\ UNCHANGED document
           ELSE document' = r.doc /\ tpc' = StageAfter("include") /\ UNCHANGED tresult
    /\ UNCHANGED <<opts, effective_url, first, fvars, svars, mvars>>

\* lines 351-369
TransformStrip ==
    /\ tpc = "strip"
    /\ document' = DetachWhileEach(document, StripTags)
    /\ tpc' = StageAfter("strip")
    /\ UNCHANGED <<opts, effective_url, tresult, first, fvars, svars, mvars>>

\* lines 372-406
TransformOmce ==
    /\ tpc = "omce"
    /\ IF opts.only_main_content /\ opts.omce_signatures # <<>>
       THEN LET signatures == opts.omce_signatures[1]
            IN  IF OmcePanics(signatures)
                THEN Leave(Panicked) /\ UNCHANGED document
                ELSE /\ document' = DetachAll(document, nodes_to_drop(document, signatures))
                     /\ tpc' = StageAfter("omce")
                     /\ UNCHANGED tresult
       ELSE tpc' = StageAfter("omce") /\ UNCHANGED <<document, tresult>>
    /\ UNCHANGED <<opts, effective_url, first, fvars, svars, mvars>>

\* lines 408-413
TransformExclude ==
    /\ tpc = "exclude"
    /\ document' = ExcludeTags(document, opts.exclude_tags)
    /\ tpc' = StageAfter("exclude")
    /\ UNCHANGED <<opts, effective_url, tresult, first, fvars, svars, mvars>>

\* lines 415-424
TransformDenylist ==
    /\ tpc = "denylist"
    /\ document' = IF opts.only_main_content THEN DenyLoop(document, EXCLUDE_NON_MAIN_TAGS)
                   ELSE document
    /\ tpc' = StageAfter("denylist")
    /\ UNCHANGED <<opts, effective_url, tresult, first, fvars, svars, mvars>>

\* lines 426-468
TransformSrcset ==
    /\ tpc = "srcset"
    /\ document' = SrcsetLoop(document,
                       select(document, document.top, <<"img", "[", "srcset", "]">>).found)
    /\ tpc' = StageAfter("srcset")
    /\ UNCHANGED <<opts, effective_url, tresult, first, fvars, svars, mvars>>

\* lines 470-484
TransformRewrite ==
    /\ tpc = "rewrite"
    /\ LET src_images == select(document, document.top, <<"img", "[", "src", "]">>).found
           imgs_done  == RewriteLoop(document, effective_url, src_images, "src")
           href_anchors == select(imgs_done, imgs_done.top, <<"a", "[", "href", "]">>).found
       IN  document' = RewriteLoop(imgs_done, effective_url, href_anchors, "href")
    /\ tpc' = StageAfter("rewrite")
    /\ UNCHANGED <<opts, effective_url, tresult, first, fvars, svars, mvars>>

\* lines 486 and 502-507
TransformSerialize ==
    /\ tpc = "serialize"
    /\ tresult' = [kind |-> "ok", text |-> to_string(document)]
    /\ tpc' = StageAfter("serialize")
    /\ UNCHANGED <<opts, document, effective_url, first, fvars, svars, mvars>>

\* the caller hands the text it got back in, with the options of the first call
TransformAgain ==
    /\ tpc = "returned"
    /\ tresult.kind = "ok"
    /\ first = <<>>
    /\ first' = <<tresult.text>>
    /\ opts' = [opts EXCEPT !.html = tresult.text]
    /\ tpc' = "call"
    /\ tresult' = Running
    /\ UNCHANGED <<document, effective_url, fvars, svars, mvars>>

NextTransform ==
    \/ TransformCall \/ TransformInclude \/ TransformStrip \/ TransformOmce
    \/ TransformExclude \/ TransformDenylist \/ TransformSrcset \/ TransformRewrite
    \/ TransformSerialize \/ TransformAgain

(* extract_metadata.  out is the HashMap<String, Value>, a set of          *)
(* <<key, value>> entries; a value is a String or an Array of strings.     *)

String(s) == [kind |-> "String", s |-> s, items |-> <<>>]
Array(items) == [kind |-> "Array", s |-> <<>>, items |-> items]

\* HashMap::get
MapGet(m, k) ==
    IF \E e \in m : e[1] = k THEN <<(CHOOSE e \in m : e[1] = k)[2]>> ELSE <<>>

\* lines 106-120: the content of the first <meta> with the given name or property
insert_meta(out_, doc, attr, metaName, outName) ==
    LET x == select(doc, doc.top, <<"meta", "[", attr, "=", metaName, "]">>).found
        content == IF x = <<>> THEN <<>> ELSE AttrGet(doc.nodes[x[1]].attrs, "content")
    IN  IF content # <<>> THEN HashMapInsert(out_, <<outName>>, String(content[1])) ELSE out_

\* lines 144-150
CatalogFirst ==
    << <<"property", "og:title", "ogTitle">>,
       <<"property", "og:description", "ogDescription">>,
       <<"property", "og:url", "ogUrl">>,
       <<"property", "og:image", "ogImage">>,
       <<"property", "og:audio", "ogAudio">>,
       <<"property", "og:determiner", "ogDeterminer">>,
       <<"property", "og:locale", "ogLocale">> >>

\* lines 169-184
CatalogSecond ==
    << <<"property", "og:site_name", "ogSiteName">>,
       <<"property", "og:video", "ogVideo">>,
       <<"name", "article:section", "articleSection">>,
       <<"name", "article:tag", "articleTag">>,
       <<"property", "article:published_time", "publishedTime">>,
       <<"property", "article:modified_time", "modifiedTime">>,
       <<"name", "dcterms.keywords", "dcTermsKeywords">>,
       <<"name", "dc.description", "dcDescription">>,
       <<"name", "dc.subject", "dcSubject">>,
       <<"name", "dcterms.subject", "dcTermsSubject">>,
       <<"name", "dcterms.audience", "dcTermsAudience">>,
       <<"name", "dc.type", "dcType">>,
       <<"name", "dcterms.type", "dcTermsType">>,
       <<"name", "dc.date", "dcDate">>,
       <<"name", "dc.date.created", "dcDateCreated">>,
       <<"name", "dcterms.created", "dcTermsCreated">> >>

RECURSIVE InsertCatalog(_, _, _)
InsertCatalog(out_, doc, entries) ==
    IF entries = <<>> THEN out_
    ELSE InsertCatalog(insert_meta(out_, doc, Head(entries)[1], Head(entries)[2],
                                   Head(entries)[3]),
                       doc, Tail(entries))

\* lines 126-128
InsertTitle(out_, doc) ==
    LET title == select(doc, doc.top, <<"title">>).found
    IN  IF title = <<>> THEN out_
        ELSE HashMapInsert(out_, <<"title">>, String(text_contents(doc, title[1])))

\* lines 131-136: the href of the first link[rel="icon"], else of the first
\* link[rel*="icon"]
InsertFavicon(out_, doc) ==
    LET href(found) == IF found = <<>> THEN <<>>
                       ELSE AttrGet(doc.nodes[found[1]].attrs, "href")
        exact == href(select(doc, doc.top, <<"link", "[", "rel", "=", "icon", "]">>).found)
        loose == href(select(doc, doc.top, <<"link", "[", "rel", "*=", "icon", "]">>).found)
        favicon_link == IF exact # <<>> THEN exact ELSE loose
    IN  IF favicon_link = <<>> THEN out_
        ELSE HashMapInsert(out_, <<"favicon">>, String(favicon_link[1]))

\* lines 138-140
InsertLanguage(out_, doc) ==
    LET found == select(doc, doc.top, <<"html", "[", "lang", "]">>).found
    IN  IF found = <<>> THEN out_
        ELSE HashMapInsert(out_, <<"language">>,
                           String(AttrGet(doc.nodes[found[1]].attrs, "lang")[1]))

OgLocaleAlternate == <<"ogLocaleAlternate">>

\* lines 152-167: st is the map and whether unreachable!() was met
RECURSIVE LocaleAlternates(_, _, _)
LocaleAlternates(st, doc, found) ==
    IF found = <<>> \/ st.panic THEN st
    ELSE LET content == AttrGet(doc.nodes[Head(found)].attrs, "content")
             v == MapGet(st.out, OgLocaleAlternate)
         IN  LocaleAlternates(
                 IF content = <<>> THEN st
                 ELSE IF v = <<>>
                 THEN [st EXCEPT !.out = HashMapInsert(@, OgLocaleAlternate,
                                                       Array(<<content[1]>>))]
                 ELSE IF v[1].kind = "Array"
                 THEN [st EXCEPT !.out = HashMapInsert(@, OgLocaleAlternate,
                                             Array(Append(v[1].items, content[1])))]
                 ELSE [st EXCEPT !.panic = TRUE],
                 doc, Tail(found))

Description == <<"description">>

\* the merge without the rule for "description": a second value makes a list
MergeMetaPromoteAll(out_, attrs) ==
    LET name == IF AttrGet(attrs, "name") # <<>> THEN AttrGet(attrs, "name")
                ELSE IF AttrGet(attrs, "property") # <<>> THEN AttrGet(attrs, "property")
                ELSE AttrGet(attrs, "itemprop")
        content == AttrGet(attrs, "content")
        v == IF name = <<>> THEN <<>> ELSE MapGet(out_, name[1])
    IN  IF name = <<>> \/ content = <<>> THEN out_
        ELSE IF v = <<>> THEN HashMapInsert(out_, name[1], String(content[1]))
        ELSE IF v[1].kind = "String"
        THEN IF name[1] # <<"title">>
             THEN HashMapInsert(out_, name[1], Array(<<v[1].s, content[1]>>))
             ELSE out_
        ELSE HashMapInsert(out_, name[1], Array(Append(v[1].items, content[1])))

\* the merge that keeps the last value where a list is held
MergeMetaKeepLast(out_, attrs) ==
    LET name == IF AttrGet(attrs, "name") # <<>> THEN AttrGet(attrs, "name")
                ELSE IF AttrGet(attrs, "property") # <<>> THEN AttrGet(attrs, "property")
                ELSE AttrGet(attrs, "itemprop")
        content == AttrGet(attrs, "content")
        v == IF name = <<>> THEN <<>> ELSE MapGet(out_, name[1])
    IN  IF name = <<>> \/ content = <<>> THEN out_
        ELSE IF v = <<>> THEN HashMapInsert(out_, name[1], String(content[1]))
        ELSE IF v[1].kind = "String"
        THEN IF name[1] = Description
             THEN HashMapInsert(out_, name[1], String(v[1].s \o <<",", " ">> \o content[1]))
             ELSE IF name[1] # <<"title">>
             THEN HashMapInsert(out_, name[1], Array(<<v[1].s, content[1]>>))
             ELSE out_
        ELSE IF name[1] = Description
        THEN HashMapInsert(out_, name[1],
                           String(JoinWith(Append(v[1].items, content[1]), <<",", " ">>)))
        ELSE HashMapInsert(out_, name[1], String(content[1]))

\* lines 187-226: one <meta> of the last loop
MergeMeta(out_, attrs) ==
    LET name == IF AttrGet(attrs, "name") # <<>> THEN AttrGet(attrs, "name")
                ELSE IF AttrGet(attrs, "property") # <<>> THEN AttrGet(attrs, "property")
                ELSE AttrGet(attrs, "itemprop")
        content == AttrGet(attrs, "content")
        v == IF name = <<>> THEN <<>> ELSE MapGet(out_, name[1])
    IN  IF name = <<>> \/ content = <<>> THEN out_
        ELSE IF v = <<>> THEN HashMapInsert(out_, name[1], String(content[1]))
        ELSE IF v[1].kind = "String"
        THEN IF name[1] = Description
             THEN HashMapInsert(out_, name[1], String(v[1].s \o <<",", " ">> \o content[1]))
             ELSE IF name[1] # <<"title">>
             THEN HashMapInsert(out_, name[1], Array(<<v[1].s, content[1]>>))
             ELSE out_
        ELSE IF name[1] = Description
        THEN HashMapInsert(out_, name[1],
                           String(JoinWith(Append(v[1].items, content[1]), <<",", " ">>)))
        ELSE HashMapInsert(out_, name[1], Array(Append(v[1].items, content[1])))

\* lines 123-186: the named keys, then the iterator over every <meta>
MetaEnter ==
    /\ mpc = "call"
    /\ LET doc   == parse_html(meta_html)
           named == InsertCatalog(InsertLanguage(InsertFavicon(InsertTitle({}, doc), doc), doc),
                                  doc, CatalogFirst)
           alt   == LocaleAlternates([out |-> named, panic |-> FALSE], doc,
                        select(doc, doc.top,
                               <<"meta", "[", "property", "=", "og:locale:alternate", "]">>).found)
       IN  /\ meta_document' = doc
           /\ IF alt.panic
              THEN /\ mresult' = "panic" /\ mpc' = "returned"
                   /\ meta_out' = alt.out /\ metas' = <<>>
              ELSE /\ meta_out' = InsertCatalog(alt.out, doc, CatalogSecond)
                   /\ metas' = select(doc, doc.top, <<"meta">>).found
                   /\ mpc' = "metas"
                   /\ UNCHANGED mresult
    /\ UNCHANGED <<meta_html, fvars, svars, tvars>>

\* lines 186-227: one turn of the loop
MetaNext ==
    /\ mpc = "metas"
    /\ metas # <<>>
    /\ meta_out' = MergeMeta(meta_out, meta_document.nodes[Head(metas)].attrs)
    /\ metas' = Tail(metas)
    /\ UNCHANGED <<meta_html, mpc, meta_document, mresult, fvars, svars, tvars>>

\* line 229
MetaReturn ==
    /\ mpc = "metas"
    /\ metas = <<>>
    /\ mresult' = "ok"
    /\ mpc' = "returned"
    /\ UNCHANGED <<meta_html, meta_document, meta_out, metas, fvars, svars, tvars>>

NextMeta == MetaEnter \/ MetaNext \/ MetaReturn

(* The texts and options the HTML side runs on.                            *)

El(tag, attrs, inner) == << <<"open", tag, attrs>> >> \o inner \o << <<"close", tag>> >>
Void(tag, attrs) == << <<"open", tag, attrs>> >>
Txt(chars) == << <<"text", chars>> >>

HtmlText(head, body) == El("html", <<>>, El("head", <<>>, head) \o El("body", <<>>, body))

MaxParts == 2

WidgetClass == << <<"class", <<"widget">> >> >>
MainId == << <<"id", <<"main">> >> >>

\* <section><p>x</p></section>
PartSection == El("section", <<>>, El("p", <<>>, Txt(<<"x">>)))
\* <div class="widget"><p id="main">m</p></div>
PartWidgetMain == El("div", WidgetClass, El("p", MainId, Txt(<<"m">>)))
\* <footer><div class="widget">w</div></footer>
PartFooterWidget == El("footer", <<>>, El("div", WidgetClass, Txt(<<"w">>)))
\* <nav><script>s</script> </nav>
PartNavScript == El("nav", <<>>, El("script", <<>>, Txt(<<"s">>)) \o Txt(<<" ">>))

\* <img srcset="a.jpg 1x">
PartImage == Void("img", << <<"srcset", <<"a.jpg", " ", "1", "x">> >> >>)

\* <aside><div class="widget"><p id="main">m</p></div></aside>
PartAsideWidgetMain == El("aside", <<>>, PartWidgetMain)

PartPool ==
    {PartSection, PartWidgetMain, PartFooterWidget, PartNavScript, PartImage,
     PartAsideWidgetMain}

TitleText == El("title", <<>>, Txt(<<"t">>))

StructuredTexts ==
    {HtmlText(TitleText, Concat(parts)) :
        parts \in UNION {[1..n -> PartPool] : n \in 1..MaxParts}}

PageUrl == <<"h", "t", "t", "p", ":", "/", "/", "a", "/", "p">>

SelP == <<"p">>
SelSectionChildP == <<"section", ">", "p">>
SelBroken == <<"[">>
SelNav == <<"nav">>
SelSection == <<"section">>
SelImgSrc == <<"img", "[", "src", "]">>

SigSection == <<"section", ":", "t", ":">>
SigBare == <<"section">>
SigSectionUT == <<"section", ":", "u", ":", "t", ":">>
SigP == <<"p", ":", "t", ":">>
SigNav == <<"nav", ":", "t", ":">>
SigsTwoModes == <<SigSectionUT, SigP, SigSection, SigNav>>

OptionFields ==
    [wire : {"json"}, html : StructuredTexts, url : {PageUrl},
     include_tags : {<<>>, <<SelP>>, <<SelSectionChildP>>, <<SelBroken>>,
                     <<SelP, SelSection>>},
     exclude_tags : {<<>>, <<SelP>>, <<SelBroken, SelNav>>, <<SelImgSrc>>},
     only_main_content : BOOLEAN,
     omce_signatures : {<<>>, << <<SigSection>> >>, << <<SigBare>> >>, <<SigsTwoModes>>}]

\* what cannot be read as options, and options whose URL is no URL
UnreadableOptions ==
    [wire : {"not_utf8", "not_json", "json"}, html : {HtmlText(TitleText, PartSection)},
     url : {PageUrl, UrlNoScheme}, include_tags : {<<>>}, exclude_tags : {<<SelBroken>>},
     only_main_content : {FALSE}, omce_signatures : {<<>>}]

TransformRequests ==
    {o \in OptionFields : o.only_main_content \/ o.omce_signatures = <<>>}
    \cup UnreadableOptions

TransformStart ==
    /\ tpc = "call"
    /\ document = EmptyDocument
    /\ effective_url = UrlError
    /\ tresult = Running
    /\ first = <<>>

InitTransform ==
    /\ opts \in TransformRequests
    /\ TransformStart
    /\ data = <<>>
    /\ FilterIdle
    /\ SitemapIdle
    /\ MetaIdle

SpecTransform == InitTransform /\ [][NextTransform]_vars

MaxImages == 1

SrcsetDensity == <<"a.jpg", " ", "1", "x", ",", " ", "b.jpg", " ", "2", "x">>
SrcsetWidth == <<"a.jpg", " ", "300", "w", ",", " ", "b.jpg", " ", "600", "w">>
SrcsetMixed == <<"a.jpg", " ", "300", "w", ",", " ", "b.jpg", " ", "2", "x">>
SrcsetNaN == <<"a.jpg", " ", "1", "x", ",", " ", "b.jpg", " ", "NaN", "x", ",", " ",
               "c.jpg", " ", "2", "x">>
SrcsetHalf == <<"a.jpg", " ", "0.5", "x">>
SrcsetTie == <<"a.jpg", ",", " ", "b.jpg", " ", "1", "x">>
SrcsetBroken == <<"a.jpg", " ", "2", "x", "x">>
SrcsetPool == {SrcsetDensity, SrcsetWidth, SrcsetMixed, SrcsetNaN, SrcsetHalf, SrcsetTie,
               SrcsetBroken}

SrcPlain == <<"s.jpg">>
HrefRooted == <<"/", "x">>
BaseDir == <<"/", "d", "/">>

ImgPool ==
    {Void("img", << <<"srcset", s>> >>) : s \in SrcsetPool}
    \cup {Void("img", << <<"src", SrcPlain>>, <<"srcset", s>> >>) : s \in SrcsetPool}
    \cup {Void("img", << <<"src", v>> >>) : v \in {SrcPlain, LinkEmptyHost}}

AnchorPool ==
    {<<>>} \cup {El("a", << <<"href", h>> >>, Txt(<<"x">>)) : h \in {HrefRooted, LinkEmptyHost}}

BasePool == {<<>>} \cup {Void("base", << <<"href", b>> >>) : b \in {BaseDir, LinkEmptyHost}}

ImageTexts ==
    {HtmlText(base, Concat(imgs) \o anchor) :
        base \in BasePool, anchor \in AnchorPool,
        imgs \in UNION {[1..n -> ImgPool] : n \in 0..MaxImages}}

ImageRequests ==
    [wire : {"json"}, html : ImageTexts, url : {PageUrl}, include_tags : {<<>>},
     exclude_tags : {<<>>}, only_main_content : {FALSE}, omce_signatures : {<<>>}]

InitImages ==
    /\ opts \in ImageRequests
    /\ TransformStart
    /\ data = <<>>
    /\ FilterIdle
    /\ SitemapIdle
    /\ MetaIdle

SpecImages == InitImages /\ [][NextTransform]_vars

(* get_inner_json and extract_base_href, the two other entry points that   *)
(* take and return C strings.  A call keeps its arguments in opts, its     *)
(* document in document and what it hands back in tresult.                 *)

\* lines 519-525 and 511: the text is read and parsed
InnerJsonCall ==
    /\ tpc = "call"
    /\ opts.entry = "get_inner_json"
    /\ IF opts.wire = "html_not_utf8"
       THEN Leave(Failed("Failed to parse input HTML as C string")) /\ UNCHANGED document
       ELSE document' = parse_html(opts.html) /\ tpc' = "body" /\ UNCHANGED tresult
    /\ UNCHANGED <<opts, effective_url, first, fvars, svars, mvars>>

\* lines 511 and 527-532: the text of <body>, as it is
InnerJsonReturn ==
    /\ tpc = "body"
    /\ LET body == select_first(document, document.top, <<"body">>)
       IN  IF body = <<>> THEN Leave(FailedBare)
           ELSE Leave([kind |-> "ok", text |-> text_contents(document, body[1])])
    /\ UNCHANGED <<opts, document, effective_url, first, fvars, svars, mvars>>

\* lines 33-46 and 21-23: both texts are read, the HTML is parsed, then the URL
BaseHrefCall ==
    /\ tpc = "call"
    /\ opts.entry = "extract_base_href"
    /\ IF opts.wire = "html_not_utf8"
       THEN /\ Leave(Failed("Failed to parse input HTML as C string"))
            /\ UNCHANGED <<document, effective_url>>
       ELSE IF opts.wire = "url_not_utf8"
       THEN /\ Leave(Failed("Failed to parse input URL as C string"))
            /\ UNCHANGED <<document, effective_url>>
       ELSE /\ document' = parse_html(opts.html)
            /\ IF ~UrlParse(opts.url).ok
               THEN Leave(Failed("url::ParseError")) /\ UNCHANGED effective_url
               ELSE effective_url' = UrlParse(opts.url) /\ tpc' = "base" /\ UNCHANGED tresult
    /\ UNCHANGED <<opts, first, fvars, svars, mvars>>

\* lines 25 and 47-54
BaseHrefReturn ==
    /\ tpc = "base"
    /\ Leave([kind |-> "ok", text |-> extract_base_href_from_document(document, effective_url)])
    /\ UNCHANGED <<opts, document, effective_url, first, fvars, svars, mvars>>

NextBytes == InnerJsonCall \/ InnerJsonReturn \/ BaseHrefCall \/ BaseHrefReturn

MaxChunks == 2

JsonText == <<"{", "}">>

\* what a browser shows of a JSON answer, and texts that begin like a failure
ChunkPool ==
    {Txt(JsonText), El("pre", <<>>, Txt(JsonText)), Txt(ErrorPrefix),
     El("pre", <<>>, Txt(ErrorPrefix \o <<":", "x">>))}

ByteTexts ==
    {HtmlText(base, Concat(chunks)) :
        base \in BasePool \cup {Void("base", << <<"href", ErrorPrefix>> >>)},
        chunks \in UNION {[1..n -> ChunkPool] : n \in 0..MaxChunks}}

ByteRequests ==
    [entry : {"get_inner_json"}, wire : {"utf8", "html_not_utf8"}, html : ByteTexts,
     url : {PageUrl}]
    \cup [entry : {"extract_base_href"}, wire : {"utf8", "html_not_utf8", "url_not_utf8"},
          html : ByteTexts, url : {PageUrl, UrlNoScheme}]

InitBytes ==
    /\ opts \in ByteRequests
    /\ TransformStart
    /\ data = <<>>
    /\ FilterIdle
    /\ SitemapIdle
    /\ MetaIdle

SpecBytes == InitBytes /\ [][NextBytes]_vars

MaxMetas == 2

Meta(attrs) == Void("meta", attrs)

ContentA == <<"A">>
ContentB == <<"B">>

MetaPool ==
    {Meta(<< <<"name", Description>>, <<"content", ContentA>> >>),
     Meta(<< <<"name", Description>>, <<"content", ContentB>> >>),
     Meta(<< <<"property", Description>>, <<"content", ContentB>> >>),
     Meta(<< <<"itemprop", Description>>, <<"content", ContentA>> >>),
     Meta(<< <<"name", Description>> >>),
     Meta(<< <<"name", <<"keywords">> >>, <<"property", Description>>,
             <<"content", ContentA>> >>),
     Meta(<< <<"name", <<"title">> >>, <<"content", ContentA>> >>),
     Meta(<< <<"property", <<"og:title">> >>, <<"content", ContentB>> >>),
     Meta(<< <<"property", <<"og:locale:alternate">> >>, <<"content", ContentA>> >>),
     Meta(<< <<"name", OgLocaleAlternate>>, <<"content", ContentB>> >>)}

MetaTexts ==
    {HtmlText(TitleText \o Concat(ms), Txt(<<"x">>)) :
        ms \in UNION {[1..n -> MetaPool] : n \in 0..MaxMetas}}

InitMeta ==
    /\ meta_html \in MetaTexts
    /\ mpc = "call"
    /\ meta_document = EmptyDocument
    /\ meta_out = {}
    /\ metas = <<>>
    /\ mresult = "none"
    /\ data = <<>>
    /\ FilterIdle
    /\ SitemapIdle
    /\ HtmlIdle

SpecMeta == InitMeta /\ [][NextMeta]_vars

---------------------------------------------------------------------------
(* Properties of filter_links, checked under Spec.                         *)

Returned == fpc = "returned" /\ fresult = "ok"

Keys(m) == {e[1] : e \in m}

ReasonCodes == <<"URL_PARSE_ERROR", "DEPTH_LIMIT", "EXCLUDE_PATTERN", "INCLUDE_PATTERN",
                 "BACKWARD_CRAWLING", "ROBOTS_TXT", "FILE_TYPE">>

\* the patterns of a list that compile, compiled, in the order of the list
ValidRegexes(patterns) ==
    LET valid == SelectSeq(patterns, LAMBDA q : RegexNew(q).ok)
    IN  [i \in 1..Len(valid) |-> RegexNew(valid[i])]

\* what the request itself says: its URLs parsed, its valid patterns compiled
RequestCtx == [data |-> data, base_url |-> UrlParse(data.base_url),
               initial_url |-> UrlParse(data.initial_url),
               excludes_regex |-> ValidRegexes(data.excludes),
               includes_regex |-> ValidRegexes(data.includes)]

\* link fails the check that records the given reason
FailsCheck(c, link, reason) ==
    LET url == UrlJoin(c.base_url, link)
    IN  IF reason = "URL_PARSE_ERROR" THEN JoinFails(c, link)
        ELSE /\ ~JoinFails(c, link)
             /\ CASE reason = "DEPTH_LIMIT" -> DepthExceeded(c, url)
                  [] reason = "EXCLUDE_PATTERN" -> ExcludeMatches(c, url)
                  [] reason = "INCLUDE_PATTERN" -> IncludeMisses(c, url)
                  [] reason = "BACKWARD_CRAWLING" -> IsBackward(c, url)
                  [] reason = "ROBOTS_TXT" -> RobotsDisallowed(c, url)
                  [] reason = "FILE_TYPE" -> FileType(c, url)

FailsSome(c, link) ==
    LET url == UrlJoin(c.base_url, link)
    IN  \/ ~url.ok
        \/ DepthExceeded(c, url) \/ ExcludeMatches(c, url) \/ IncludeMisses(c, url)
        \/ IsBackward(c, url) \/ RobotsDisallowed(c, url) \/ FileType(c, url)

\* the reason of the earliest check, in the order of ReasonCodes, that link fails
EarliestReason(c, link) ==
    ReasonCodes[CHOOSE k \in 1..Len(ReasonCodes) :
                  /\ FailsCheck(c, link, ReasonCodes[k])
                  /\ \A j \in 1..(k - 1) : ~FailsCheck(c, link, ReasonCodes[j])]

\* the input links that pass every check, in input order
Passing == LET c == RequestCtx IN SelectSeq(data.links, LAMBDA l : ~FailsSome(c, l))

\* the limit the request states: none, or its number with a negative one read as 0
StatedLimit == IF data.limit = <<>> THEN Len(data.links) + 1
               ELSE IF data.limit[1] < 0 THEN 0 ELSE data.limit[1]

\* the position of the link with which the limit is reached, the last position when
\* it is not reached: the links after it are never looked at
RECURSIVE CutFrom(_, _, _)
CutFrom(c, n, passed) ==
    IF passed >= StatedLimit \/ n = Len(data.links) THEN n
    ELSE CutFrom(c, n + 1, IF FailsSome(c, data.links[n + 1]) THEN passed ELSE passed + 1)

CutPosition == CutFrom(RequestCtx, 0, 0)

EntriesOf(link) == {e \in denial_reasons : e[1] = link}

\* C1 as stated: in every returned result each input link that fails a check, at any
\* position and for any limit, is a key of denial_reasons with one reason code, and no
\* returned link is a key.
C1_EveryFailingLinkDenied ==
    (Returned /\ UrlsParse(data.base_url, data.initial_url)) =>
        /\ \A i \in 1..Len(data.links) :
              FailsSome(RequestCtx, data.links[i]) =>
                  /\ Cardinality(EntriesOf(data.links[i])) = 1
                  /\ \A e \in EntriesOf(data.links[i]) :
                        \E k \in 1..Len(ReasonCodes) : e[2] = ReasonCodes[k]
        /\ \A k \in 1..Len(links) : links[k] \notin Keys(denial_reasons)

\* C1 amended: the same for the links the filter looks at, those up to the position
\* where the limit is reached (all of them when fewer than limit links pass, none
\* when the effective limit is 0).
C1_EvaluatedFailingLinkDenied ==
    Returned =>
        /\ \A link \in {data.links[i] : i \in 1..CutPosition} :
              FailsSome(RequestCtx, link) =>
                  /\ Cardinality(EntriesOf(link)) = 1
                  /\ \A e \in EntriesOf(link) :
                        \E k \in 1..Len(ReasonCodes) : e[2] = ReasonCodes[k]
        /\ \A k \in 1..Len(links) : links[k] \notin Keys(denial_reasons)

\* a failing link sits behind a passing one and is recorded all the same
C1_Witness ==
    /\ Returned
    /\ CutPosition = 2
    /\ ~FailsSome(RequestCtx, data.links[1])
    /\ FailsSome(RequestCtx, data.links[2])
    /\ data.links[2] \in Keys(denial_reasons)

Take(seq, n) == SubSeq(seq, 1, IF n > Len(seq) THEN Len(seq) ELSE n)

\* C2: the returned links are the first L passing input links in input order, L the
\* explicit limit, or all of them when the request has no limit.
C2_LinksArePrefixOfPassing ==
    Returned =>
        links = (IF data.limit = <<>> THEN Passing ELSE Take(Passing, data.limit[1]))

\* two different passing links are returned in their input order
C2_Witness ==
    /\ Returned
    /\ Len(links) = 2
    /\ links[1] # links[2]
    /\ links = data.links

\* C3: the reason recorded for a denied link is that of the earliest check, in the
\* order URL_PARSE_ERROR, DEPTH_LIMIT, EXCLUDE_PATTERN, INCLUDE_PATTERN,
\* BACKWARD_CRAWLING, ROBOTS_TXT, FILE_TYPE, that the link fails.
C3_EarliestCheckWins ==
    \A e \in denial_reasons : e[2] = EarliestReason(Ctx, e[1])

\* a link that is too deep and also matches an exclude pattern is DEPTH_LIMIT
C3_Witness ==
    \E e \in denial_reasons :
        /\ e[2] = "DEPTH_LIMIT"
        /\ FailsCheck(Ctx, e[1], "EXCLUDE_PATTERN")
        /\ FailsCheck(Ctx, e[1], "FILE_TYPE")

\* C4: when more than limit links pass, exactly limit links are returned and no
\* passing link, returned or cut off, has an entry in denial_reasons.
C4_TruncationIsNotDenial ==
    (Returned /\ data.limit # <<>> /\ data.limit[1] >= 0 /\ Len(Passing) > data.limit[1]) =>
        /\ Len(links) = data.limit[1]
        /\ \A i \in 1..Len(Passing) : Passing[i] \notin Keys(denial_reasons)

\* two links pass, the limit is 1: one is returned and nothing is denied
C4_Witness ==
    /\ Returned
    /\ data.limit = <<1>>
    /\ Len(Passing) = 2
    /\ Len(links) = 1
    /\ denial_reasons = {}

\* C5: an explicit limit that is negative or 0 gives the effective limit 0, and the
\* call returns no link and no denial reason without looking at any link.
C5_ZeroLimitReturnsEmpty ==
    (fpc = "returned" /\ data.limit # <<>> /\ data.limit[1] <= 0) =>
        /\ limit = 0
        /\ fresult = "ok"
        /\ links = <<>>
        /\ denial_reasons = {}
        /\ consumed = 0

\* a negative limit, a link that would be denied, a base URL that does not parse
C5_Witness ==
    /\ fpc = "returned"
    /\ data.limit = <<-1>>
    /\ data.links # <<>>
    /\ data.links[1] = LinkEmptyHost
    /\ ~UrlParse(data.base_url).ok
    /\ fresult = "ok"

UrlInvalid == ~UrlParse(data.base_url).ok \/ ~UrlParse(data.initial_url).ok

\* C6 as stated: a request whose base_url or initial_url does not parse fails as a
\* whole, whatever its limit.
C6_InvalidUrlAlwaysFails ==
    (fpc = "returned" /\ UrlInvalid) => fresult = "err"

\* C6 amended: it fails as a whole unless its explicit limit is 0 or negative (then
\* the empty result is returned before the URLs are parsed).
C6_InvalidUrlFailsUnlessZeroLimit ==
    (fpc = "returned" /\ UrlInvalid /\ (data.limit = <<>> \/ data.limit[1] > 0)) =>
        /\ fresult = "err"
        /\ links = <<>>
        /\ denial_reasons = {}

\* the base URL parses, the initial URL does not, and the call fails
C6_Witness ==
    /\ fpc = "returned"
    /\ UrlParse(data.base_url).ok
    /\ ~UrlParse(data.initial_url).ok
    /\ data.limit = <<1>>
    /\ data.links # <<>>
    /\ fresult = "err"

\* what the call recorded for a link it looked at
Recorded(link) ==
    IF EntriesOf(link) # {} THEN (CHOOSE e \in EntriesOf(link) : TRUE)[2]
    ELSE IF \E k \in 1..Len(links) : links[k] = link THEN "KEEP"
    ELSE "NOTHING"

HasInvalid(patterns) == \E i \in 1..Len(patterns) : ~RegexNew(patterns[i]).ok

\* C7: an invalid pattern never fails the call, and every link looked at gets the
\* outcome it gets from the valid patterns of the two lists alone.
C7_InvalidPatternsDropped ==
    (fpc # "call" /\ ~UrlInvalid /\ (data.limit = <<>> \/ data.limit[1] > 0)) =>
        /\ fresult # "err"
        /\ excludes_regex = ValidRegexes(data.excludes)
        /\ includes_regex = ValidRegexes(data.includes)
        /\ \A i \in 1..consumed :
              Recorded(data.links[i]) = FilterClosure(RequestCtx, data.links[i])

\* beside an invalid pattern, the valid exclude pattern denies a link and the valid
\* include pattern lets a link pass
C7_Witness ==
    /\ Returned
    /\ HasInvalid(data.excludes)
    /\ HasInvalid(data.includes)
    /\ Len(data.includes) = 2
    /\ \E e \in denial_reasons : e[2] = "EXCLUDE_PATTERN"
    /\ links # <<>>

---------------------------------------------------------------------------
(* Properties of the sitemap classifier, checked under SpecSitemap.        *)

\* the texts of the source: of every entry with the given tag whose first <loc> has a
\* text, that text, in document order
RECURSIVE SrcLocs(_, _)
SrcLocs(es, tag) ==
    IF es = <<>> THEN <<>>
    ELSE (IF Head(es).tag = tag /\ Head(es).locs # <<>> /\ Head(es).locs[1] # <<>>
          THEN <<Head(es).locs[1]>> ELSE <<>>) \o SrcLocs(Tail(es), tag)

RECURSIVE TrimAll(_)
TrimAll(ts) == IF ts = <<>> THEN <<>> ELSE <<trim(Head(ts))>> \o TrimAll(Tail(ts))

WellFormed == sitemap_src.damage = "none"

Processed == spc = "returned" /\ sop = "process" /\ sresult = "ok"

\* the urls of the instructions with the given action, one after the other
RECURSIVE UrlsOf(_, _)
UrlsOf(instrs, action) ==
    IF instrs = <<>> THEN <<>>
    ELSE (IF Head(instrs).action = action THEN Head(instrs).urls ELSE <<>>)
         \o UrlsOf(Tail(instrs), action)

HowMany(action) == Cardinality({i \in 1..Len(instructions) : instructions[i].action = action})

EndsInXml(v) == ends_with(to_lowercase(v), DotXml)
IsPage(v) == ~EndsInXml(v) /\ UrlParse(v).ok /\ ~is_file(UrlParse(v))

\* C8: on a urlset the trimmed loc values that end in .xml, whatever their case, are
\* the urls of 'recurse', the others that parse as a URL and have no file extension are
\* the urls of 'process', both in input order, and there is nothing else.
C8_UrlsetPartition ==
    (Processed /\ sitemap_src.root = "urlset") =>
        LET values == TrimAll(SrcLocs(sitemap_src.entries, "url"))
        IN  /\ UrlsOf(instructions, "recurse") = SelectSeq(values, EndsInXml)
            /\ UrlsOf(instructions, "process") = SelectSeq(values, IsPage)
            /\ HowMany("recurse") <= 1
            /\ HowMany("process") <= 1
            /\ \A i \in 1..Len(instructions) : instructions[i].action \in {"recurse", "process"}

\* an upper-case .XML value is recursed into, a padded page URL is processed trimmed
C8_Witness ==
    /\ Processed
    /\ sitemap_src.root = "urlset"
    /\ UrlsOf(instructions, "recurse") = <<LocXml>>
    /\ UrlsOf(instructions, "process") = <<trim(LocPage)>>
    /\ LocPage # trim(LocPage)

RECURSIVE SumCounts(_)
SumCounts(instrs) == IF instrs = <<>> THEN 0 ELSE Head(instrs).count + SumCounts(Tail(instrs))

\* C9: every emitted instruction has a non-empty urls list and its length as count,
\* and total_count is the sum of the counts.
C9_CountsAddUp ==
    Processed =>
        /\ \A i \in 1..Len(instructions) :
              /\ instructions[i].urls # <<>>
              /\ instructions[i].count = Len(instructions[i].urls)
        /\ total_count = SumCounts(instructions)

\* one .xml loc and one page loc: a recurse of 1, a process of 1, a total of 2
C9_Witness ==
    /\ Processed
    /\ Len(sitemap_src.entries) = 2
    /\ Len(instructions) = 2
    /\ instructions[1].action = "recurse" /\ instructions[1].count = 1
    /\ instructions[2].action = "process" /\ instructions[2].count = 1
    /\ total_count = 2

RootTag == IF sitemap_src.root = "sitemapindex" THEN "sitemap" ELSE "url"

RECURSIVE AsItems(_)
AsItems(ts) == IF ts = <<>> THEN <<>> ELSE <<[loc |-> <<Head(ts)>>]>> \o AsItems(Tail(ts))

\* C10: _parse_sitemap_xml fails on a text that is not well formed and on a root other
\* than 'sitemapindex' and 'urlset'; otherwise it succeeds with the text of the first
\* <loc> of every child entry whose first <loc> has one, in document order.
C10_ParseSitemap ==
    spc # "call" =>
        IF WellFormed /\ sitemap_src.root \in {"sitemapindex", "urlset"}
        THEN /\ parsed.ok
             /\ parsed.variant = (IF sitemap_src.root = "urlset" THEN "Urlset"
                                  ELSE "SitemapIndex")
             /\ parsed.items = AsItems(SrcLocs(sitemap_src.entries, RootTag))
             /\ sop = "parse" => sresult = "ok"
        ELSE /\ ~parsed.ok
             /\ spc = "returned"
             /\ sresult = "err"

\* an entry with two <loc> gives its first one, an entry whose first <loc> is empty
\* gives nothing
C10_Witness ==
    /\ spc = "returned"
    /\ sop = "parse"
    /\ sitemap_src.entries = <<[tag |-> "url", locs |-> <<LocXml, LocPage>>],
                               [tag |-> "url", locs |-> << <<>>, LocPage >>]>>
    /\ parsed.ok
    /\ parsed.items = <<[loc |-> <<LocXml>>]>>


\* C11: a well-formed sitemapindex with at least one <sitemap> child whose first <loc>
\* has a text gives exactly one instruction; its action is "recurse" and its urls are
\* the trimmed texts of those children in document order, whether or not they parse as
\* URLs or name files; no "process" instruction is given.
C11_SitemapIndexRecurse ==
    (spc = "returned" /\ sop = "process" /\ WellFormed
     /\ sitemap_src.root = "sitemapindex"
     /\ SrcLocs(sitemap_src.entries, "sitemap") # <<>>)
    => /\ sresult = "ok"
       /\ Len(instructions) = 1
       /\ instructions[1].action = "recurse"
       /\ instructions[1].urls = TrimAll(SrcLocs(sitemap_src.entries, "sitemap"))
       /\ instructions[1].count = Len(instructions[1].urls)
       /\ HowMany("process") = 0

\* a sitemapindex whose children name a relative reference and a page written with
\* white space around it: both are handed on, the second one trimmed
C11_Witness ==
    /\ Processed /\ WellFormed
    /\ sitemap_src.root = "sitemapindex"
    /\ sitemap_src.entries = <<[tag |-> "sitemap", locs |-> <<LocRelative>>],
                               [tag |-> "sitemap", locs |-> <<LocPage>>]>>
    /\ instructions = <<[action |-> "recurse", urls |-> <<LocRelative, trim(LocPage)>>,
                         count |-> 2]>>

---------------------------------------------------------------------------
(* Properties of extract_metadata, checked under SpecMeta.                 *)

\* the key a <meta> start tag goes by: name, else property, else itemprop
MetaKey(attrs) ==
    IF AttrGet(attrs, "name") # <<>> THEN AttrGet(attrs, "name")
    ELSE IF AttrGet(attrs, "property") # <<>> THEN AttrGet(attrs, "property")
    ELSE AttrGet(attrs, "itemprop")

\* the contents of the <meta> tags of a text that go by the given key, in the order of
\* the text
ContentsFor(html, key) ==
    LET tags == SelectSeq(html, LAMBDA t : /\ t[1] = "open" /\ t[2] = "meta"
                                           /\ MetaKey(t[3]) = <<key>>
                                           /\ AttrGet(t[3], "content") # <<>>)
    IN  [i \in 1..Len(tags) |-> AttrGet(tags[i][3], "content")[1]]

CommaSpace == <<",", " ">>

\* C12: the value under "description" is a single string at every point of the
\* extraction, never a list; when the call has returned and n >= 1 <meta> tags go by
\* "description" with contents c1..cn, it is c1, c2, ..., cn joined by ", ".
C12_DescriptionIsOneString ==
    LET v  == MapGet(meta_out, Description)
        cs == ContentsFor(meta_html, Description)
    IN  /\ v # <<>> => v[1].kind = "String"
        /\ (mpc = "returned" /\ mresult = "ok" /\ cs # <<>>)
           => v = <<String(JoinWith(cs, CommaSpace))>>

\* two tags, one named "description" with A, one with the property "description" and B
C12_Witness ==
    /\ mpc = "returned" /\ mresult = "ok"
    /\ ContentsFor(meta_html, Description) = <<ContentA, ContentB>>
    /\ MapGet(meta_out, Description) = <<String(<<"A", ",", " ", "B">>)>>

---------------------------------------------------------------------------
(* Properties of transform_html, checked under SpecTransform.              *)

StageOrder ==
    <<"call", "include", "strip", "omce", "exclude", "denylist", "srcset", "rewrite",
      "serialize", "returned">>

StagePosition(stage) == CHOOSE i \in 1..Len(StageOrder) : StageOrder[i] = stage

\* the tree of the running call before OMCE and the selector-based exclusion: the text
\* parsed, reduced to the include_tags and stripped of head, meta, noscript, style, script
PreExclusion ==
    DetachWhileEach(IncludeTags(parse_html(opts.html), opts.include_tags).doc, StripTags)

\* what OMCE leaves of the tree before the exclusion
AfterOmce ==
    IF opts.only_main_content /\ opts.omce_signatures # <<>>
    THEN DetachAll(PreExclusion, nodes_to_drop(PreExclusion, opts.omce_signatures[1]))
    ELSE PreExclusion

TextsOf(html) == {html[i][2] : i \in {j \in 1..Len(html) : html[j][1] = "text"}}

\* C14: when transform_html has run a second time, with the options of the first run, on
\* the text the first run returned, every text the first run kept is in the text the
\* second run returns.
C14_SecondRunKeepsContent ==
    (first # <<>> /\ tpc = "returned" /\ tresult.kind = "ok")
    => TextsOf(first[1]) \subseteq TextsOf(tresult.text)


---------------------------------------------------------------------------
(* Properties of the srcset and src/href stages, checked under SpecImages. *)

\* the <img> start tags of an HTML text, in the order of the text
ImgTags(html) == SelectSeq(html, LAMBDA t : t[1] = "open" /\ t[2] = "img")

\* the candidates of an <img>: the entries of its srcset that parse, then its own src as
\* a candidate of size 1 when all of them are density-based
Candidates(attrs) ==
    LET entries == split(AttrGet(attrs, "srcset")[1], ",")
    IN  WithSrc(Concat([i \in 1..Len(entries) |-> ImageSourceOf(entries[i])]),
                AttrGet(attrs, "src"))

\* the candidate the claim names: of maximal numeric size, the earliest of those
Winner(cands) ==
    LET numeric == {i \in 1..Len(cands) : ~cands[i].size.nan}
        best    == {i \in numeric : \A j \in numeric : cands[j].size.v <= cands[i].size.v}
    IN  cands[CHOOSE i \in best : \A j \in best : i <= j]

\* C15: at the end of the srcset stage every <img> whose srcset yields a candidate of
\* numeric size has as src the URL of the candidate of maximal numeric size, the earliest
\* one among equals, its own src counting as a last candidate of size 1 exactly when every
\* parsed candidate is density-based.
C15_SrcIsBiggestCandidate ==
    tpc = "rewrite" =>
        LET imgs == select(document, document.top, <<"img", "[", "srcset", "]">>).found
            was  == parse_html(opts.html)
        IN  \A k \in 1..Len(imgs) :
                LET cands == Candidates(was.nodes[imgs[k]].attrs)
                IN  (\E i \in 1..Len(cands) : ~cands[i].size.nan)
                    => AttrGet(document.nodes[imgs[k]].attrs, "src") = <<Winner(cands).url>>


\* the value an attribute of a node has when the rewriting starts: for the src of an
\* <img> whose srcset yields a candidate the URL the srcset stage selected, else the
\* value in the text handed in
PreviousValue(n, name) ==
    LET attrs == parse_html(opts.html).nodes[n].attrs
    IN  IF name = "src" /\ AttrGet(attrs, "srcset") # <<>> /\ Biggest(attrs) # <<>>
        THEN Biggest(attrs)
        ELSE AttrGet(attrs, name)

\* the effective base URL: the href of the first <base>, joined to the page URL, when
\* there is one and it can be joined, else the page URL
EffectiveBase ==
    LET page  == UrlParse(opts.url)
        html  == opts.html
        bases == SelectSeq(html, LAMBDA t : /\ t[1] = "open" /\ t[2] = "base"
                                            /\ AttrGet(t[3], "href") # <<>>)
    IN  IF bases # <<>> /\ UrlJoin(page, AttrGet(bases[1][3], "href")[1]).ok
        THEN UrlJoin(page, AttrGet(bases[1][3], "href")[1])
        ELSE page

RewrittenRight(n, name) ==
    LET old    == PreviousValue(n, name)
        joined == UrlJoin(EffectiveBase, old[1])
    IN  AttrGet(document.nodes[n].attrs, name)
            = <<IF joined.ok THEN as_str(joined) ELSE old[1]>>

\* C16: once the rewriting is done every <img src> and <a href> left in the document
\* holds the join of its previous value to the effective base URL, or its previous value
\* when that join fails; the call then returns the serialized document and no error.
C16_AttributesJoined ==
    /\ tpc \in {"serialize", "returned"} /\ tresult.kind # "err" =>
           LET imgs    == select(document, document.top, <<"img", "[", "src", "]">>).found
               anchors == select(document, document.top, <<"a", "[", "href", "]">>).found
           IN  /\ \A i \in 1..Len(imgs) : RewrittenRight(imgs[i], "src")
               /\ \A i \in 1..Len(anchors) : RewrittenRight(anchors[i], "href")
    /\ tpc = "returned" /\ UrlParse(opts.url).ok /\ EffectiveBase.ok
           => tresult = [kind |-> "ok", text |-> to_string(document)]

\* no <base>: the href /x has become http://a/x, and the src http:// that cannot be joined
\* is as it was, in a call that returned its text
C16_Witness ==
    /\ tpc = "returned" /\ tresult.kind = "ok" /\ first = <<>>
    /\ SelectSeq(opts.html, LAMBDA t : t[1] = "open" /\ t[2] = "base") = <<>>
    /\ \E n \in 1..Len(document.nodes) :
           /\ document.nodes[n].tag = "a"
           /\ PreviousValue(n, "href") = <<HrefRooted>>
           /\ AttrGet(document.nodes[n].attrs, "href")
                  = << <<"h", "t", "t", "p", ":", "/", "/", "a", "/", "x">> >>
    /\ \E n \in 1..Len(document.nodes) :
           /\ document.nodes[n].tag = "img"
           /\ ~UrlJoin(EffectiveBase, PreviousValue(n, "src")[1]).ok
           /\ AttrGet(document.nodes[n].attrs, "src") = <<LinkEmptyHost>>


---------------------------------------------------------------------------
(* Properties of the results of transform_html, checked under              *)
(* SpecTransform.                                                          *)

\* a text that is no selector
InvalidSelector(toks) == ~CompileSelector(toks).ok

\* C17: a call of transform_html whose page URL cannot be parsed, or whose include_tags
\* or exclude_tags hold a text that is no selector, never returns HTML: the text that is
\* no selector is not passed over in silence.
C17_InvalidInputIsAnError ==
    (/\ tpc = "returned"
     /\ opts.wire = "json"
     /\ \/ ~UrlParse(opts.url).ok
        \/ \E i \in 1..Len(opts.include_tags) : InvalidSelector(opts.include_tags[i])
        \/ \E i \in 1..Len(opts.exclude_tags) : InvalidSelector(opts.exclude_tags[i]))
    => tresult.kind # "ok"

\* C18: every error transform_html returns is the prefix RUSTFC:ERROR: with its colon,
\* followed by a message.
C18_ErrorsCarryThePrefix ==
    tresult.kind = "err" =>
        /\ starts_with(tresult.text, ErrorPrefix \o <<":">>)
        /\ Len(tresult.text) > Len(ErrorPrefix) + 1

\* C19: no call of transform_html ends in a panic: whatever the text, the URL, the
\* selectors and the OMCE signatures, it returns a text or an error.
C19_NoPanic ==
    /\ tresult.kind # "panic"
    /\ tpc = "returned" => tresult.kind \in {"ok", "err"}


\* an element that one of the selectors of a list matches; a text that is no selector
\* matches nothing
MatchesAny(doc, n, sels) ==
    /\ IsElement(doc, n)
    /\ \E i \in 1..Len(sels) :
           LET sel == CompileSelector(sels[i])
           IN  sel.ok /\ Matches(doc, n, sel, Len(sel.parts))

InDocument(doc, n) ==
    LET all == Descendants(doc, doc.top)
    IN  \E i \in 1..Len(all) : all[i] = n

\* C20: in the step of the denylist stage, with only_main_content set, an element of the
\* document that matches a denylist selector is still in the document after the step
\* when it or one of its descendants matches a force-include selector, and is out of it
\* otherwise; with only_main_content unset the step leaves the document as it is.
C20_DenylistStage ==
    [][tpc = "denylist" =>
           IF opts.only_main_content
           THEN LET before == Descendants(document, document.top)
                IN  \A i \in 1..Len(before) :
                        MatchesAny(document, before[i], EXCLUDE_NON_MAIN_TAGS)
                        => LET below == Descendants(document, <<before[i]>>)
                           IN  InDocument(document', before[i])
                               <=> \E j \in 1..Len(below) :
                                       MatchesAny(document, below[j], FORCE_INCLUDE_MAIN_TAGS)
           ELSE document' = document]_vars

\* the denylist stage is over: the <div class="widget"> around <p id="main"> is in the
\* document, the <footer> and the <div class="widget"> in it are not
C20_Witness ==
    /\ tpc = "srcset"
    /\ opts.only_main_content
    /\ opts.html = HtmlText(TitleText, PartWidgetMain \o PartFooterWidget)
    /\ \E n \in 1..Len(document.nodes) :
           /\ document.nodes[n].tag = "div"
           /\ InDocument(document, n)
           /\ \E m \in 1..Len(document.nodes) :
                  /\ AttrGet(document.nodes[m].attrs, "id") = << <<"main">> >>
                  /\ ParentOf(document, m) = n
    /\ \E n \in 1..Len(document.nodes) :
           /\ document.nodes[n].tag = "footer"
           /\ ~InDocument(document, n)
    /\ \E n \in 1..Len(document.nodes) :
           /\ document.nodes[n].tag = "div"
           /\ ~InDocument(document, n)


---------------------------------------------------------------------------
(* Properties of the single checks of filter_links, checked under          *)
(* SpecPolicy.                                                             *)

\* the link reaches the include check: it joins, is not too deep, matches no exclude
ReachesIncludeCheck(c, link) ==
    LET url == UrlJoin(c.base_url, link)
    IN  url.ok /\ ~DepthExceeded(c, url) /\ ~ExcludeMatches(c, url)

\* no pattern of the includes list that is a regex matches the target of the link
NoIncludeMatches(c, link) ==
    LET url == UrlJoin(c.base_url, link)
        res == ValidRegexes(data.includes)
    IN  ~\E k \in 1..Len(res) : is_match(res[k], exinc_path(c, url))

\* C21: with a non-empty includes list, whatever the number of its patterns that are
\* regexes, every link looked at that reaches the include check and that no include
\* regex matches is recorded with INCLUDE_PATTERN.
C21_NonEmptyIncludesDeny ==
    \A i \in 1..consumed :
        (/\ data.includes # <<>>
         /\ ReachesIncludeCheck(Ctx, data.links[i])
         /\ NoIncludeMatches(Ctx, data.links[i]))
        => Recorded(data.links[i]) = "INCLUDE_PATTERN"


---------------------------------------------------------------------------
(* Properties of the depth and backward checks, checked under SpecPaths.   *)

\* the segment of a path that starts at position i
SegmentAt(path, i) ==
    LET rest == SubSeq(path, i, Len(path))
    IN  SubSeq(rest, 1, FindAny(rest, {"/"}) - 1)

\* the number of segments between the "/" of a path that are not empty and are neither
\* index.php nor index.html
CountedSegments(path) ==
    Cardinality({i \in 1..Len(path) :
                    /\ path[i] # "/"
                    /\ i = 1 \/ path[i - 1] = "/"
                    /\ SegmentAt(path, i) \notin {IndexPhp, IndexHtml}})

\* C22: a link looked at is recorded with DEPTH_LIMIT exactly when it joins to the base
\* URL and the path of the joined URL has more counted segments than max_depth: the
\* segments that are not empty and are neither index.php nor index.html.
C22_DepthLimit ==
    \A i \in 1..consumed :
        LET url == UrlJoin(base_url, data.links[i])
        IN  Recorded(data.links[i]) = "DEPTH_LIMIT"
            <=> (url.ok /\ CountedSegments(url.path) > data.max_depth)

\* max_depth 0: /x/y is DEPTH_LIMIT, /index.html is not
C22_Witness ==
    /\ Returned
    /\ data.max_depth = 0
    /\ data.links = <<LinkXY, LinkIndex>>
    /\ Recorded(LinkXY) = "DEPTH_LIMIT"
    /\ Recorded(LinkIndex) # "DEPTH_LIMIT"
    /\ CountedSegments(UrlJoin(base_url, LinkIndex).path) = 0

\* the path of the joined URL starts with the characters of the path of initial_url
HasInitialPrefix(url) ==
    /\ Len(url.path) >= Len(initial_url.path)
    /\ \A k \in 1..Len(initial_url.path) : url.path[k] = initial_url.path[k]

\* C23: with allow_backward_crawling false, a link looked at that passed the earlier
\* checks is recorded with BACKWARD_CRAWLING exactly when the path of its joined URL
\* does not start with the characters of the path of initial_url; with
\* allow_backward_crawling true nothing is recorded with BACKWARD_CRAWLING.
C23_BackwardCrawling ==
    \A i \in 1..consumed :
        LET link == data.links[i]
            url  == UrlJoin(base_url, link)
        IN  IF data.allow_backward_crawling
            THEN Recorded(link) # "BACKWARD_CRAWLING"
            ELSE (/\ url.ok
                  /\ ~DepthExceeded(Ctx, url)
                  /\ ~ExcludeMatches(Ctx, url)
                  /\ ~IncludeMisses(Ctx, url))
                 => (Recorded(link) = "BACKWARD_CRAWLING" <=> ~HasInitialPrefix(url))

\* initial path /blog: /blogger is returned and / is BACKWARD_CRAWLING
C23_Witness ==
    /\ Returned
    /\ ~data.allow_backward_crawling
    /\ initial_url.path = <<"/", "b", "l", "o", "g">>
    /\ data.links = <<LinkBlogger, LinkRoot>>
    /\ links = <<LinkBlogger>>
    /\ Recorded(LinkRoot) = "BACKWARD_CRAWLING"


---------------------------------------------------------------------------
(* A further property of process_sitemap, checked under SpecSitemap.       *)

\* C24: process_sitemap on a well-formed urlset returns its result, and no url of any of
\* its instructions, 'recurse' or 'process', is a loc value that does not parse as a URL
\* (so none is counted either).
C24_UnparsableLocsDropped ==
    (spc = "returned" /\ sop = "process" /\ WellFormed /\ sitemap_src.root = "urlset") =>
        /\ sresult = "ok"
        /\ \A i \in 1..Len(instructions) :
               \A k \in 1..Len(instructions[i].urls) : UrlParse(instructions[i].urls[k]).ok


---------------------------------------------------------------------------
(* A further property of extract_metadata, checked under SpecMeta.         *)

\* C25: in every turn of the loop over the <meta> elements, for every key other than
\* "description": a list under the key stays a list, with the content of the <meta>
\* appended when the <meta> goes by the key and has a content; a scalar under the key
\* becomes the list of the scalar and that content, except under "title", where it
\* stays as it is; a <meta> of another key, or without content, leaves the value alone.
C25_ListsGrowScalarsPromote ==
    [][(mpc = "metas" /\ metas # <<>>) =>
           LET attrs   == meta_document.nodes[Head(metas)].attrs
               content == AttrGet(attrs, "content")
           IN  \A k \in Keys(meta_out) \ {Description} :
                   LET v    == MapGet(meta_out, k)[1]
                       hit  == MetaKey(attrs) = <<k>> /\ content # <<>>
                   IN  MapGet(meta_out', k) =
                           IF ~hit THEN <<v>>
                           ELSE IF v.kind = "Array"
                           THEN <<Array(Append(v.items, content[1]))>>
                           ELSE IF k = <<"title">> THEN <<v>>
                           ELSE <<Array(<<v.s, content[1]>>)>>]_vars

\* the list of og:locale:alternate has got a second item from a <meta> named
\* ogLocaleAlternate
C25_Witness ==
    /\ mpc = "returned" /\ mresult = "ok"
    /\ ContentsFor(meta_html, OgLocaleAlternate) = <<ContentB>>
    /\ MapGet(meta_out, OgLocaleAlternate) = <<Array(<<ContentA, ContentB>>)>>


---------------------------------------------------------------------------
(* Further properties of the stages of transform_html, checked under       *)
(* SpecTransform.                                                          *)

\* the subtrees of the nodes the selectors match in a document, written out one after the
\* other: selector by selector, the matches of each in document order
RECURSIVE MatchedSubtrees(_, _)
MatchedSubtrees(doc, sels) ==
    IF sels = <<>> THEN <<>>
    ELSE Serialize(doc, select(doc, doc.top, Head(sels)).found)
         \o MatchedSubtrees(doc, Tail(sels))

\* C26: when the include_tags stage is over, the children of the <div> of the reduced
\* document are, written out, the nodes the selectors match in the text handed in, each
\* with the whole subtree it has there: those of the first selector in document order,
\* then those of the second.
C26_IncludeCopiesSubtrees ==
    (tpc = "strip" /\ opts.include_tags # <<>>) =>
        LET root == select_first(document, document.top, <<"div">>)[1]
        IN  Serialize(document, document.kids[root])
                = MatchedSubtrees(parse_html(opts.html), opts.include_tags)

\* the elements of a document with one of the given tags
ElementsTagged(doc, tags) ==
    LET all == Descendants(doc, doc.top)
    IN  {all[i] : i \in {j \in 1..Len(all) : doc.nodes[all[j]].tag \in tags}}

\* the elements of a document that a selector of the list matches in that document
ElementsMatching(doc, sels) ==
    LET all == Descendants(doc, doc.top)
    IN  {all[i] : i \in {j \in 1..Len(all) : MatchesAny(doc, all[j], sels)}}

StrippedTags == {"head", "meta", "noscript", "style", "script"}

DetachedBetween(before, after) ==
    LET all == Descendants(before, before.top)
    IN  {all[i] : i \in {j \in 1..Len(all) :
            \/ ParentOf(before, all[j]) # ParentOf(after, all[j])
            \/ ~InDocument(after, all[j]) /\ ParentOf(before, all[j]) = 0}}

\* the elements with a text that is not blank whose signature, in the mode that is the
\* second segment of a signature of the list, is that signature
SignatureMatched(doc, signatures) ==
    LET all == Descendants(doc, doc.top)
    IN  {all[i] : i \in {j \in 1..Len(all) :
            /\ IsElement(doc, all[j])
            /\ trim(text_contents(doc, all[j])) # <<>>
            /\ \E k \in 1..Len(signatures) :
                   LET m == split(signatures[k], ":")[2]
                   IN  get_node_signature(doc, all[j], SignatureMode(m)) = signatures[k]}}

\* C28: the step of OMCE changes the tree only when only_main_content is set and a
\* signature list is given; then, unless it panics, it detaches exactly the elements of
\* the tree it starts on that have a text that is not blank and whose signature, in the
\* mode named by the second segment of a signature of the list, is that signature: never
\* a text node, never an element with an empty or blank text, and, every test being made
\* on the tree the step starts on, also an element whose whole text lies in elements that
\* are detached themselves.
C28_OmceDetachesExactlyTheMatched ==
    [][tpc = "omce" =>
          IF opts.only_main_content /\ opts.omce_signatures # <<>>
          THEN tpc' = "exclude" =>
                   DetachedBetween(document, document')
                       = SignatureMatched(document, opts.omce_signatures[1])
          ELSE document' = document]_vars

\* after OMCE with signatures of two modes: the <section> and the <p> in it are both
\* detached, the <nav> with a blank text is not
C28_Witness ==
    /\ tpc = "exclude"
    /\ opts.only_main_content /\ opts.omce_signatures = <<SigsTwoModes>>
    /\ ElementsTagged(PreExclusion, {"section"}) # {}
    /\ ElementsTagged(PreExclusion, {"nav"}) # {}
    /\ \A n \in ElementsTagged(PreExclusion, {"section", "p"}) :
           n \in DetachedBetween(PreExclusion, document)
    /\ ElementsTagged(document, {"nav"}) # {}

\* C29: in the step of the denylist stage every element of the tree that matches a
\* force-include selector is in the tree after the step, under the same chain of
\* ancestors up to the root, whether or not these ancestors match denylist selectors.
C29_ForceIncludeKeepsAncestors ==
    [][tpc = "denylist" =>
          \A n \in ElementsMatching(document, FORCE_INCLUDE_MAIN_TAGS) :
              /\ InDocument(document', n)
              /\ Ancestors(document', n) = Ancestors(document, n)]_vars

\* the denylist stage is over on <aside><div class="widget"><p id="main">: the <p> is in
\* the tree, below a denylist match that is below another, and a <footer> of the text is
\* out of the tree
C29_Witness ==
    /\ tpc = "srcset"
    /\ opts.only_main_content
    /\ \E n \in ElementsMatching(document, FORCE_INCLUDE_MAIN_TAGS) :
           LET up == Ancestors(document, n)
           IN  /\ Len(up) >= 2
               /\ MatchesAny(document, up[1], EXCLUDE_NON_MAIN_TAGS)
               /\ MatchesAny(document, up[2], EXCLUDE_NON_MAIN_TAGS)
    /\ ElementsTagged(PreExclusion, {"footer"}) # {}
    /\ ElementsTagged(document, {"footer"}) = {}

---------------------------------------------------------------------------
(* A property of the entry points that return C strings, checked under     *)
(* SpecBytes.                                                              *)

\* C30: a call of get_inner_json or extract_base_href that succeeds hands back a text
\* that does not begin with RUSTFC:ERROR.
C30_SuccessNeverLooksLikeFailure ==
    (tpc = "returned" /\ tresult.kind = "ok") => ~starts_with(tresult.text, ErrorPrefix)

===========================================================================
